---- MODULE Spec2Model ----
(***************************************************************************)
(* Session lifecycle, conversation persistence and real-time gateway of    *)
(* the recruitment-agent backend.                                          *)
(*                                                                         *)
(* The durable store (Prisma/PostgreSQL), the cache (Redis) and the        *)
(* socket.io room adapter are state; every service method is a call that   *)
(* advances one await at a time, so that calls interleave exactly where    *)
(* the TypeScript code can be suspended.                                   *)
(***************************************************************************)
EXTENDS Integers, Sequences, FiniteSets, TLC

(***************************************************************************)
(* Bounds of the model.                                                    *)
(***************************************************************************)
MaxTime == 2
MaxSessions == 3
MaxCalls == 2
MaxMessages == 2
MaxHandlers == 2
MaxSends == 2

(***************************************************************************)
(* Configuration (SessionsService constructor).  The configured values are *)
(* read from app.session.*; the model instantiates them with small values  *)
(* in clock ticks.                                                         *)
(***************************************************************************)
\* app.session.maxActiveSessions (default 10), instantiated at 2
maxActiveSessions == 2
\* app.session.defaultExpirationHours (default 24), as two clock ticks
defaultExpirationHours == 2

Users == {"u1", "u2"}
SessionIds == 1..MaxSessions
Procs == 1..MaxCalls
SeqProcs == {1}
Times == 0..MaxTime

\* SessionStatus enum of the schema
SessionStatus == {"ACTIVE", "INACTIVE", "EXPIRED"}

VARIABLES
    now,        \* the wall clock read by every new Date()
    store,      \* sessions table: id -> row, for the ids that exist
    nextId,     \* next session id the store assigns
    cache,      \* Redis: session id -> cached projection, for the keys set
    messages,   \* conversation_messages table, in insertion order
    nextMsgId,  \* next message id the store assigns
    call,       \* per caller: the service call in flight and its locals
    sock,       \* per socket: "new", "open" or "closed"
    conn,       \* per socket: its ChatConnectionData object
    rooms,      \* per socket: the session rooms the adapter has it in
    handler,    \* the gateway handlers in flight
    received,   \* per socket: the message_received events, in order
    events      \* per socket: the events the last handler step emitted to it

svcVars == <<now, store, nextId, cache, messages, nextMsgId, call>>
gwVars == <<sock, conn, rooms, handler, received, events>>
vars == <<svcVars, gwVars>>

(***************************************************************************)
(* Values                                                                  *)
(***************************************************************************)
Null == [kind |-> "null"]
Ok == [kind |-> "ok"]
Err(msg) == [kind |-> "error", message |-> msg]
Found(s) == [kind |-> "session", session |-> s]
Count(n) == [kind |-> "count", n |-> n]
Created(m) == [kind |-> "message", message |-> m]
Paginated(items, total, page, pageSize, hasNext, hasPrev) ==
    [kind |-> "page", items |-> items, total |-> total, page |-> page,
     pageSize |-> pageSize, hasNext |-> hasNext, hasPrev |-> hasPrev]

NoSnap == [id |-> 0]
Snap(id, row) ==
    [id |-> id, userId |-> row.userId, status |-> row.status,
     lastActivity |-> row.lastActivity, expiresAt |-> row.expiresAt]

NoMsg == [id |-> 0]

\* message content: a string as the sequence of its characters
Contents == {<<>>, <<" ">>, <<" ", "h">>}

\* String.prototype.trim
RECURSIVE TrimStart(_)
TrimStart(s) ==
    IF s # <<>> /\ Head(s) = " " THEN TrimStart(Tail(s)) ELSE s

RECURSIVE TrimEnd(_)
TrimEnd(s) ==
    IF s # <<>> /\ s[Len(s)] = " " THEN TrimEnd(SubSeq(s, 1, Len(s) - 1)) ELSE s

Trim(s) == TrimEnd(TrimStart(s))

\* a caller with no call in flight; exp, st, page, pageSize and order are
\* optional arguments (<<>> when the caller leaves them undefined)
Idle ==
    [op |-> "none", pc |-> "idle", sid |-> 0, uid |-> "-", exp |-> <<>>,
     st |-> <<>>, ts |-> 0, snap |-> NoSnap, ids |-> {}, msg |-> NoMsg,
     content |-> <<>>, page |-> <<>>, pageSize |-> <<>>, order |-> <<>>,
     ret |-> Null]

(***************************************************************************)
(* SessionRepository: the queries, as functions of the table.              *)
(***************************************************************************)
Exists(st, id) == id \in DOMAIN st

RepoCreate(st, id, uid, expiresAt, t) ==
    [x \in DOMAIN st \cup {id} |->
        IF x = id
        THEN [userId |-> uid, status |-> "ACTIVE",
              lastActivity |-> t, expiresAt |-> expiresAt]
        ELSE st[x]]

\* an update that also touches lastActivity
RepoUpdateStatusTouching(st, id, status) ==
    [st EXCEPT ![id].status = status, ![id].lastActivity = @ + 1]

RepoUpdateStatus(st, id, status) == [st EXCEPT ![id].status = status]

RepoUpdateLastActivity(st, id, t) == [st EXCEPT ![id].lastActivity = t]

RepoUpdateExpiresAt(st, id, t) == [st EXCEPT ![id].expiresAt = t]

RepoDelete(st, id) == [x \in DOMAIN st \ {id} |-> st[x]]

FindActiveByUserId(st, uid, t) ==
    {id \in DOMAIN st :
        /\ st[id].userId = uid
        /\ st[id].status = "ACTIVE"
        /\ st[id].expiresAt > t}

\* the row an ascending order would put last
FirstOfActive(st, ids) ==
    {id \in ids : \A j \in ids : st[id].lastActivity >= st[j].lastActivity}

\* orderBy lastActivity desc: the rows that can come last in the result
LastOfActive(st, ids) ==
    {id \in ids : \A j \in ids : st[id].lastActivity <= st[j].lastActivity}

\* the sweep's query with the comparison turned around
FindExpiredSessionsFuture(st, t) ==
    {id \in DOMAIN st : st[id].expiresAt > t /\ st[id].status # "EXPIRED"}

\* the sweep's query with the boundary included
FindExpiredSessionsInclusive(st, t) ==
    {id \in DOMAIN st : st[id].expiresAt <= t /\ st[id].status # "EXPIRED"}

FindExpiredSessions(st, t) ==
    {id \in DOMAIN st : st[id].expiresAt < t /\ st[id].status # "EXPIRED"}

MarkExpired(st, ids) ==
    [x \in DOMAIN st |->
        IF x \in ids THEN [st[x] EXCEPT !.status = "EXPIRED"] ELSE st[x]]

(***************************************************************************)
(* SessionsService private helpers.                                        *)
(***************************************************************************)
\* the comparison turned around
isSessionExpiredReversed(s, t) == t < s.expiresAt

isSessionExpired(s, t) == t > s.expiresAt

calculateDefaultExpiration(t) == t + defaultExpirationHours

CacheSet(c, s) ==
    [x \in DOMAIN c \cup {s.id} |-> IF x = s.id THEN s ELSE c[x]]

CacheDel(c, ids) == [x \in DOMAIN c \ ids |-> c[x]]

(***************************************************************************)
(* Initial state: empty tables, empty cache, no call in flight.            *)
(***************************************************************************)
Clients == {"A", "B"}
Handlers == 1..MaxHandlers

NoConn == [registered |-> FALSE, userId |-> "-", sessionId |-> 0]
NoHandler ==
    [op |-> "none", pc |-> "idle", client |-> "-", sid |-> 0, content |-> <<>>,
     session |-> Null]

\* the gateway after construction: no socket, an empty registry
InitGateway ==
    /\ sock = [c \in Clients |-> "new"]
    /\ conn = [c \in Clients |-> NoConn]
    /\ rooms = [c \in Clients |-> {}]
    /\ handler = [h \in Handlers |-> NoHandler]
    /\ received = [c \in Clients |-> <<>>]
    /\ events = [c \in Clients |-> {}]

Init ==
    /\ now = 0
    /\ store = <<>>
    /\ nextId = 1
    /\ cache = <<>>
    /\ messages = <<>>
    /\ nextMsgId = 1
    /\ call = [p \in Procs |-> Idle]
    /\ InitGateway

Free(p) == call[p].pc \in {"idle", "done"}

Finish(p, r) ==
    call' = [call EXCEPT ![p] =
        [Idle EXCEPT !.op = call[p].op, !.pc = "done",
                     !.sid = call[p].sid, !.uid = call[p].uid, !.ret = r]]

Goto(p, pc) == call' = [call EXCEPT ![p].pc = pc]

\* the clock advances
Tick ==
    /\ now < MaxTime
    /\ now' = now + 1
    /\ UNCHANGED <<store, nextId, cache, messages, nextMsgId, call, gwVars>>

(***************************************************************************)
(* Where a call continues when a nested service call returns.              *)
(***************************************************************************)
NotFoundOrExpired == Err("Session not found or expired")
RecordNotFound == Err("Record to update not found")

\* expireSession has returned: to createSession (make room), to getSession
\* (expire-on-read returns null) or to the caller of expireSession
AfterExpire(p) ==
    CASE call[p].op = "createSession" -> Goto(p, "c_create")
      [] call[p].op = "getSession" -> Finish(p, Null)
      [] call[p].op = "expireSession" -> Finish(p, Ok)
      [] OTHER -> Finish(p, NotFoundOrExpired)

\* getSession has returned the row s
AfterGet(p, s) ==
    CASE call[p].op = "getSession" -> Finish(p, Found(s))
      [] call[p].op = "processMessage" ->
            call' = [call EXCEPT ![p].pc = "a_write", ![p].ts = now]
      [] call[p].op = "clearConversation" -> Goto(p, "k_delete")
      [] OTHER -> Goto(p, "m_create")

\* updateSessionActivity has returned the row s
AfterActivity(p, s) ==
    CASE call[p].op = "updateSessionActivity" -> Finish(p, Found(s))
      [] call[p].op = "processMessage" -> Goto(p, "m_create")
      [] OTHER -> Finish(p, Created(call[p].msg))

(***************************************************************************)
(* SessionsService.expireSession                                           *)
(***************************************************************************)
StartExpireSession(p) ==
    /\ Free(p)
    /\ \E id \in 1..(nextId - 1) :
        call' = [call EXCEPT ![p] =
            [Idle EXCEPT !.op = "expireSession", !.pc = "x_update", !.sid = id]]
    /\ UNCHANGED <<now, store, nextId, cache, messages, nextMsgId, gwVars>>

\* sessionRepository.update(id, {status: EXPIRED}); rejects for a missing row
ExpireUpdate(p) ==
    /\ call[p].pc = "x_update"
    /\ IF Exists(store, call[p].sid)
       THEN /\ store' = RepoUpdateStatus(store, call[p].sid, "EXPIRED")
            /\ Goto(p, "x_del")
       ELSE /\ Finish(p, RecordNotFound)
            /\ UNCHANGED store
    /\ UNCHANGED <<now, nextId, cache, messages, nextMsgId, gwVars>>

\* removeCachedSession(id)
ExpireDel(p) ==
    /\ call[p].pc = "x_del"
    /\ cache' = CacheDel(cache, {call[p].sid})
    /\ AfterExpire(p)
    /\ UNCHANGED <<now, store, nextId, messages, nextMsgId, gwVars>>

(***************************************************************************)
(* SessionsService.createSession                                           *)
(***************************************************************************)
ExpiresAtArgs == {<<>>, <<1>>}

Creating == {p \in Procs : call[p].op = "createSession" /\ call[p].pc # "done"}

StartCreateSession(p) ==
    /\ Free(p)
    /\ nextId + Cardinality(Creating) <= MaxSessions
    /\ \E uid \in Users, e \in ExpiresAtArgs :
        call' = [call EXCEPT ![p] =
            [Idle EXCEPT !.op = "createSession", !.pc = "c_find",
                         !.uid = uid, !.exp = e]]
    /\ UNCHANGED <<now, store, nextId, cache, messages, nextMsgId, gwVars>>

\* findActiveByUserId, then the limit check; the oldest is the last row
CreateFind(p) ==
    /\ call[p].pc = "c_find"
    /\ LET activeSessions == FindActiveByUserId(store, call[p].uid, now) IN
        IF Cardinality(activeSessions) >= maxActiveSessions
        THEN \E oldest \in LastOfActive(store, activeSessions) :
                call' = [call EXCEPT ![p].pc = "x_update", ![p].sid = oldest]
        ELSE Goto(p, "c_create")
    /\ UNCHANGED <<now, store, nextId, cache, messages, nextMsgId, gwVars>>

\* sessionRepository.create with status ACTIVE
CreateInsert(p) ==
    /\ call[p].pc = "c_create"
    /\ LET expiresAt == IF call[p].exp = <<>>
                        THEN calculateDefaultExpiration(now)
                        ELSE call[p].exp[1]
           st == RepoCreate(store, nextId, call[p].uid, expiresAt, now)
       IN /\ store' = st
          /\ call' = [call EXCEPT ![p].pc = "c_cache", ![p].sid = nextId,
                                  ![p].snap = Snap(nextId, st[nextId])]
    /\ nextId' = nextId + 1
    /\ UNCHANGED <<now, cache, messages, nextMsgId, gwVars>>

\* cacheSession(session), then return it
CreateCache(p) ==
    /\ call[p].pc = "c_cache"
    /\ cache' = CacheSet(cache, call[p].snap)
    /\ Finish(p, Found(call[p].snap))
    /\ UNCHANGED <<now, store, nextId, messages, nextMsgId, gwVars>>

(***************************************************************************)
(* SessionsService.getSession                                              *)
(***************************************************************************)
StartGetSession(p) ==
    /\ Free(p)
    /\ \E id \in 1..(nextId - 1) :
        call' = [call EXCEPT ![p] =
            [Idle EXCEPT !.op = "getSession", !.pc = "g_cache", !.sid = id]]
    /\ UNCHANGED <<now, store, nextId, cache, messages, nextMsgId, gwVars>>

\* a getCachedSession that returns the entry it finds
getCachedSessionHit(c, id, t) ==
    IF id \in DOMAIN c /\ ~(t > c[id].expiresAt) THEN Found(c[id]) ELSE Null

\* what getCachedSession returns: null on every path (a live entry is not
\* returned, to force the store lookup)
getCachedSession(c, id, t) == Null

\* getCachedSession: an entry past its expiresAt is removed; getSession
\* returns the cached session if it is given one
GetCached(p) ==
    /\ call[p].pc = "g_cache"
    /\ LET cachedSession == getCachedSession(cache, call[p].sid, now) IN
       IF cachedSession # Null
       THEN AfterGet(p, cachedSession.session)
       ELSE IF /\ call[p].sid \in DOMAIN cache
               /\ now > cache[call[p].sid].expiresAt
       THEN Goto(p, "g_evict")
       ELSE Goto(p, "g_find")
    /\ UNCHANGED <<now, store, nextId, cache, messages, nextMsgId, gwVars>>

GetEvict(p) ==
    /\ call[p].pc = "g_evict"
    /\ cache' = CacheDel(cache, {call[p].sid})
    /\ Goto(p, "g_find")
    /\ UNCHANGED <<now, store, nextId, messages, nextMsgId, gwVars>>

\* findById, then the expiry check
GetFind(p) ==
    /\ call[p].pc = "g_find"
    /\ IF ~Exists(store, call[p].sid)
       THEN IF call[p].op = "getSession"
            THEN Finish(p, Null)
            ELSE Finish(p, NotFoundOrExpired)
       ELSE LET session == Snap(call[p].sid, store[call[p].sid]) IN
            IF isSessionExpired(session, now)
            THEN Goto(p, "x_update")
            ELSE call' = [call EXCEPT ![p].pc = "g_set", ![p].snap = session]
    /\ UNCHANGED <<now, store, nextId, cache, messages, nextMsgId, gwVars>>

\* cacheSession(session), then return it
GetSet(p) ==
    /\ call[p].pc = "g_set"
    /\ cache' = CacheSet(cache, call[p].snap)
    /\ AfterGet(p, call[p].snap)
    /\ UNCHANGED <<now, store, nextId, messages, nextMsgId, gwVars>>

(***************************************************************************)
(* SessionsService.updateSessionActivity                                   *)
(***************************************************************************)
\* the call evaluates new Date() when it builds the update
StartUpdateSessionActivity(p) ==
    /\ Free(p)
    /\ \E id \in 1..(nextId - 1) :
        call' = [call EXCEPT ![p] =
            [Idle EXCEPT !.op = "updateSessionActivity", !.pc = "a_write",
                         !.sid = id, !.ts = now]]
    /\ UNCHANGED <<now, store, nextId, cache, messages, nextMsgId, gwVars>>

\* sessionRepository.updateLastActivity: the store applies the write
ActivityWrite(p) ==
    /\ call[p].pc = "a_write"
    /\ IF Exists(store, call[p].sid)
       THEN LET st == RepoUpdateLastActivity(store, call[p].sid, call[p].ts) IN
            /\ store' = st
            /\ call' = [call EXCEPT ![p].pc = "a_cache",
                                    ![p].snap = Snap(call[p].sid, st[call[p].sid])]
       ELSE /\ Finish(p, RecordNotFound)
            /\ UNCHANGED store
    /\ UNCHANGED <<now, nextId, cache, messages, nextMsgId, gwVars>>

\* cacheSession(session), then return it
ActivityCache(p) ==
    /\ call[p].pc = "a_cache"
    /\ cache' = CacheSet(cache, call[p].snap)
    /\ AfterActivity(p, call[p].snap)
    /\ UNCHANGED <<now, store, nextId, messages, nextMsgId, gwVars>>

(***************************************************************************)
(* SessionsService.updateSession                                           *)
(***************************************************************************)
StatusArgs == {<<>>, <<"ACTIVE">>, <<"INACTIVE">>}
NewExpiresAtArgs == {<<>>, <<MaxTime + 1>>}

StartUpdateSession(p) ==
    /\ Free(p)
    /\ \E id \in 1..(nextId - 1), s \in StatusArgs, e \in NewExpiresAtArgs :
        /\ s # <<>> \/ e # <<>>
        /\ call' = [call EXCEPT ![p] =
            [Idle EXCEPT !.op = "updateSession", !.pc = "u_find",
                         !.sid = id, !.st = s, !.exp = e]]
    /\ UNCHANGED <<now, store, nextId, cache, messages, nextMsgId, gwVars>>

\* findById and Assert.notNull(existingSession)
UpdateFind(p) ==
    /\ call[p].pc = "u_find"
    /\ IF Exists(store, call[p].sid)
       THEN Goto(p, "u_write")
       ELSE Finish(p, Err("Session not found"))
    /\ UNCHANGED <<now, store, nextId, cache, messages, nextMsgId, gwVars>>

\* the fields the caller defined are written, the others kept
ApplyUpdate(st, id, status, expiresAt) ==
    LET a == IF status = <<>> THEN st ELSE RepoUpdateStatus(st, id, status[1])
    IN IF expiresAt = <<>> THEN a ELSE RepoUpdateExpiresAt(a, id, expiresAt[1])

UpdateWrite(p) ==
    /\ call[p].pc = "u_write"
    /\ IF Exists(store, call[p].sid)
       THEN LET st == ApplyUpdate(store, call[p].sid, call[p].st, call[p].exp) IN
            /\ store' = st
            /\ call' = [call EXCEPT ![p].pc = "u_cache",
                                    ![p].snap = Snap(call[p].sid, st[call[p].sid])]
       ELSE /\ Finish(p, RecordNotFound)
            /\ UNCHANGED store
    /\ UNCHANGED <<now, nextId, cache, messages, nextMsgId, gwVars>>

UpdateCache(p) ==
    /\ call[p].pc = "u_cache"
    /\ cache' = CacheSet(cache, call[p].snap)
    /\ Finish(p, Found(call[p].snap))
    /\ UNCHANGED <<now, store, nextId, messages, nextMsgId, gwVars>>

(***************************************************************************)
(* SessionsService.deleteSession; the messages go with the session         *)
(* (ON DELETE CASCADE).                                                    *)
(***************************************************************************)
StartDeleteSession(p) ==
    /\ Free(p)
    /\ \E id \in 1..(nextId - 1) :
        call' = [call EXCEPT ![p] =
            [Idle EXCEPT !.op = "deleteSession", !.pc = "d_delete", !.sid = id]]
    /\ UNCHANGED <<now, store, nextId, cache, messages, nextMsgId, gwVars>>

MessagesWithout(ms, ids) == SelectSeq(ms, LAMBDA m : m.sessionId \notin ids)

DeleteRow(p) ==
    /\ call[p].pc = "d_delete"
    /\ IF Exists(store, call[p].sid)
       THEN /\ store' = RepoDelete(store, call[p].sid)
            /\ messages' = MessagesWithout(messages, {call[p].sid})
            /\ Goto(p, "d_del")
       ELSE /\ Finish(p, Err("Record to delete does not exist"))
            /\ UNCHANGED <<store, messages, gwVars>>
    /\ UNCHANGED <<now, nextId, cache, nextMsgId, gwVars>>

DeleteDel(p) ==
    /\ call[p].pc = "d_del"
    /\ cache' = CacheDel(cache, {call[p].sid})
    /\ Finish(p, Ok)
    /\ UNCHANGED <<now, store, nextId, messages, nextMsgId, gwVars>>

(***************************************************************************)
(* SessionsService.cleanupExpiredSessions (the hourly sweep)               *)
(***************************************************************************)
StartCleanup(p) ==
    /\ Free(p)
    /\ call' = [call EXCEPT ![p] =
            [Idle EXCEPT !.op = "cleanupExpiredSessions", !.pc = "s_find"]]
    /\ UNCHANGED <<now, store, nextId, cache, messages, nextMsgId, gwVars>>

CleanupFind(p) ==
    /\ call[p].pc = "s_find"
    /\ LET expiredSessions == FindExpiredSessions(store, now) IN
        IF expiredSessions = {}
        THEN Finish(p, Count(0))
        ELSE call' = [call EXCEPT ![p].pc = "s_mark", ![p].ids = expiredSessions]
    /\ UNCHANGED <<now, store, nextId, cache, messages, nextMsgId, gwVars>>

CleanupMark(p) ==
    /\ call[p].pc = "s_mark"
    /\ store' = MarkExpired(store, call[p].ids)
    /\ Goto(p, "s_del")
    /\ UNCHANGED <<now, nextId, cache, messages, nextMsgId, gwVars>>

CleanupDel(p) ==
    /\ call[p].pc = "s_del"
    /\ cache' = CacheDel(cache, call[p].ids)
    /\ Finish(p, Count(Cardinality(call[p].ids)))
    /\ UNCHANGED <<now, store, nextId, messages, nextMsgId, gwVars>>

(***************************************************************************)
(* SessionsService.deleteOldExpiredSessions (the daily purge): one         *)
(* deleteMany on the sessions table; the messages of a deleted session go  *)
(* with it (ON DELETE CASCADE).  The retention is counted in clock ticks.  *)
(***************************************************************************)
olderThanDaysDefault == 1
OlderThanDaysArgs == {<<>>, <<0>>}

\* the purge's query without the retention window
deleteExpiredSessionsNow(st, t, olderThanDays) ==
    {id \in DOMAIN st : st[id].status = "EXPIRED" /\ st[id].expiresAt < t}

\* the rows SessionRepository.deleteExpiredSessions deletes
deleteExpiredSessions(st, t, olderThanDays) ==
    LET cutoffDate == t - olderThanDays IN
    {id \in DOMAIN st :
        st[id].status = "EXPIRED" /\ st[id].expiresAt < cutoffDate}

StartDeleteOldExpiredSessions(p) ==
    /\ Free(p)
    /\ \E d \in OlderThanDaysArgs :
        call' = [call EXCEPT ![p] =
            [Idle EXCEPT !.op = "deleteOldExpiredSessions", !.pc = "o_delete",
                         !.exp = d]]
    /\ UNCHANGED <<now, store, nextId, cache, messages, nextMsgId, gwVars>>

DeleteOldExpired(p) ==
    /\ call[p].pc = "o_delete"
    /\ LET olderThanDays == IF call[p].exp = <<>> THEN olderThanDaysDefault
                                                 ELSE call[p].exp[1]
           deleted == deleteExpiredSessions(store, now, olderThanDays)
       IN /\ store' = [x \in DOMAIN store \ deleted |-> store[x]]
          /\ messages' = MessagesWithout(messages, deleted)
          /\ Finish(p, Count(Cardinality(deleted)))
    /\ UNCHANGED <<now, nextId, cache, nextMsgId, gwVars>>

(***************************************************************************)
(* ChatService.processMessage and ChatService.createMessage                *)
(***************************************************************************)
Appending ==
    {p \in Procs : call[p].op \in {"processMessage", "createMessage",
                                    "appendMessage"}
                   /\ call[p].pc # "done" /\ call[p].msg = NoMsg}

StartProcessMessage(p) ==
    /\ Free(p)
    /\ nextMsgId + Cardinality(Appending) <= MaxMessages
    /\ \E id \in 1..(nextId - 1), content \in Contents :
        call' = [call EXCEPT ![p] =
            [Idle EXCEPT !.op = "processMessage", !.pc = "g_cache", !.sid = id,
                         !.content = content]]
    /\ UNCHANGED <<now, store, nextId, cache, messages, nextMsgId, gwVars>>

StartCreateMessage(p) ==
    /\ Free(p)
    /\ nextMsgId + Cardinality(Appending) <= MaxMessages
    /\ \E id \in 1..(nextId - 1), content \in Contents :
        call' = [call EXCEPT ![p] =
            [Idle EXCEPT !.op = "createMessage", !.pc = "g_cache", !.sid = id,
                         !.content = content]]
    /\ UNCHANGED <<now, store, nextId, cache, messages, nextMsgId, gwVars>>

\* Assert.notEmpty, which the Assert utility in the sources does not
\* define: it passes content that is non-empty after trimming
notEmpty(content) == Trim(content) # <<>>

\* ConversationService.appendMessage: the assertions, then the trimmed
\* content goes to conversationRepository.create
StartAppendMessage(p) ==
    /\ Free(p)
    /\ nextMsgId + Cardinality(Appending) <= MaxMessages
    /\ \E id \in 1..(nextId - 1), content \in Contents :
        call' = [call EXCEPT ![p] =
            [Idle EXCEPT !.op = "appendMessage", !.pc = "n_assert", !.sid = id,
                         !.content = content]]
    /\ UNCHANGED <<now, store, nextId, cache, messages, nextMsgId, gwVars>>

AppendAssert(p) ==
    /\ call[p].pc = "n_assert"
    /\ IF notEmpty(call[p].content)
       THEN call' = [call EXCEPT ![p].pc = "m_create",
                                 ![p].content = Trim(call[p].content)]
       ELSE Finish(p, Err("Message content must not be empty"))
    /\ UNCHANGED <<now, store, nextId, cache, messages, nextMsgId, gwVars>>

\* conversationRepository.create: the row needs its session (foreign key)
NewMessage(id, sid, t, content) ==
    [id |-> id, sessionId |-> sid, timestamp |-> t, content |-> content]

MessageCreate(p) ==
    /\ call[p].pc = "m_create"
    /\ IF Exists(store, call[p].sid)
       THEN LET m == NewMessage(nextMsgId, call[p].sid, now, call[p].content) IN
            /\ messages' = Append(messages, m)
            /\ nextMsgId' = nextMsgId + 1
            /\ IF call[p].op \in {"processMessage", "appendMessage"}
               THEN Finish(p, Created(m))
               ELSE call' = [call EXCEPT ![p].pc = "a_write", ![p].ts = now,
                                         ![p].msg = m]
       ELSE /\ Finish(p, Err("Foreign key constraint failed"))
            /\ UNCHANGED <<messages, nextMsgId, gwVars>>
    /\ UNCHANGED <<now, store, nextId, cache, gwVars>>

(***************************************************************************)
(* ChatService.updateMessage, deleteMessage and clearConversation          *)
(***************************************************************************)
MessageIds == 1..(MaxMessages + 1)

countBySessionId(ms, sid) ==
    Cardinality({i \in 1..Len(ms) : ms[i].sessionId = sid})

MessageNotFound == Err("Message not found")

\* conversationRepository.findById
findById(ms, id) == {i \in 1..Len(ms) : ms[i].id = id}

\* an update that also stamps the row with the time of the edit
RepoUpdateMessageStamping(ms, id, content, t) ==
    [i \in 1..Len(ms) |->
        IF ms[i].id = id
        THEN [ms[i] EXCEPT !.content = content, !.timestamp = t]
        ELSE ms[i]]

\* conversationRepository.update with data {content}
RepoUpdateMessage(ms, id, content, t) ==
    [i \in 1..Len(ms) |->
        IF ms[i].id = id THEN [ms[i] EXCEPT !.content = content] ELSE ms[i]]

StartUpdateMessage(p) ==
    /\ Free(p)
    /\ \E id \in MessageIds, content \in Contents :
        call' = [call EXCEPT ![p] =
            [Idle EXCEPT !.op = "updateMessage", !.pc = "e_find",
                         !.msg = [id |-> id], !.content = content]]
    /\ UNCHANGED <<now, store, nextId, cache, messages, nextMsgId, gwVars>>

StartDeleteMessage(p) ==
    /\ Free(p)
    /\ \E id \in MessageIds :
        call' = [call EXCEPT ![p] =
            [Idle EXCEPT !.op = "deleteMessage", !.pc = "e_find",
                         !.msg = [id |-> id]]]
    /\ UNCHANGED <<now, store, nextId, cache, messages, nextMsgId, gwVars>>

\* findById and Assert.notNull(existingMessage)
EditFind(p) ==
    /\ call[p].pc = "e_find"
    /\ IF findById(messages, call[p].msg.id) = {}
       THEN Finish(p, MessageNotFound)
       ELSE Goto(p, "e_write")
    /\ UNCHANGED <<now, store, nextId, cache, messages, nextMsgId, gwVars>>

\* conversationRepository.update or delete; both reject a missing row
EditWrite(p) ==
    /\ call[p].pc = "e_write"
    /\ LET id == call[p].msg.id IN
       IF findById(messages, id) = {}
       THEN /\ Finish(p, RecordNotFound)
            /\ UNCHANGED messages
       ELSE IF call[p].op = "updateMessage"
       THEN LET ms == RepoUpdateMessage(messages, id, call[p].content, now) IN
            /\ messages' = ms
            /\ Finish(p, Created(ms[CHOOSE i \in findById(ms, id) : TRUE]))
       ELSE /\ messages' = SelectSeq(messages, LAMBDA m : m.id # id)
            /\ Finish(p, Ok)
    /\ UNCHANGED <<now, store, nextId, cache, nextMsgId, gwVars>>

\* conversationRepository.deleteBySessionId: what is left
deleteBySessionId(ms, sid) == SelectSeq(ms, LAMBDA m : m.sessionId # sid)

\* clearConversation: getSession first
StartClearConversation(p) ==
    /\ Free(p)
    /\ \E id \in 1..nextId :
        call' = [call EXCEPT ![p] =
            [Idle EXCEPT !.op = "clearConversation", !.pc = "g_cache",
                         !.sid = id]]
    /\ UNCHANGED <<now, store, nextId, cache, messages, nextMsgId, gwVars>>

ClearDelete(p) ==
    /\ call[p].pc = "k_delete"
    /\ messages' = deleteBySessionId(messages, call[p].sid)
    /\ Finish(p, Count(countBySessionId(messages, call[p].sid)))
    /\ UNCHANGED <<now, store, nextId, cache, nextMsgId, gwVars>>

(***************************************************************************)
(* ConversationService.getHistory and ConversationRepository.listBySession *)
(* (count and findMany in one transaction).                                *)
(***************************************************************************)
defaultPageSize == 50
maxPageSize == 200

PageArgs == {<<>>, <<-1>>, <<0>>, <<1>>, <<2>>, <<3>>}
PageSizeArgs == {<<>>, <<-1>>, <<0>>, <<1>>, <<2>>, <<maxPageSize>>,
                 <<maxPageSize + 1>>}
OrderArgs == {<<>>, <<"asc">>, <<"desc">>}

Max(a, b) == IF a >= b THEN a ELSE b
Min(a, b) == IF a <= b THEN a ELSE b

\* a page size with no upper limit
clampPageSizeUnbounded(rawSize) == Max(1, rawSize)

clampPageSize(rawSize) == Max(1, Min(maxPageSize, rawSize))

Reverse(q) == [i \in 1..Len(q) |-> q[Len(q) + 1 - i]]

\* where sessionId, orderBy timestamp: the orders the database may return.
\* timestamp is the only sort key, so rows with equal timestamps come in
\* any order
RowsOfSession(ms, sid, order) ==
    LET rows == SelectSeq(ms, LAMBDA m : m.sessionId = sid)
        n == Len(rows)
        sorted == {f \in [1..n -> 1..n] :
                    /\ \A i, j \in 1..n : i # j => f[i] # f[j]
                    /\ \A i, j \in 1..n : i < j =>
                        rows[f[i]].timestamp <= rows[f[j]].timestamp}
    IN {IF order = "asc" THEN [i \in 1..n |-> rows[f[i]]]
                         ELSE Reverse([i \in 1..n |-> rows[f[i]]]) :
        f \in sorted}

\* the results listBySession may return
listBySession(ms, sid, optPage, optPageSize, optOrder) ==
    LET page == Max(1, IF optPage = <<>> THEN 1 ELSE optPage[1])
        rawSize == IF optPageSize = <<>> THEN defaultPageSize
                                         ELSE optPageSize[1]
        pageSize == clampPageSize(rawSize)
        order == IF optOrder = <<>> THEN "asc" ELSE optOrder[1]
        skip == (page - 1) * pageSize
    IN {Paginated(SubSeq(rows, skip + 1, Min(Len(rows), skip + pageSize)),
                  Len(rows), page, pageSize, page * pageSize < Len(rows),
                  page > 1) :
        rows \in RowsOfSession(ms, sid, order)}

StartGetHistory(p) ==
    /\ Free(p)
    /\ \E id \in 1..(nextId - 1), pg \in PageArgs, sz \in PageSizeArgs,
          o \in OrderArgs :
        call' = [call EXCEPT ![p] =
            [Idle EXCEPT !.op = "getHistory", !.pc = "h_list", !.sid = id,
                         !.page = pg, !.pageSize = sz, !.order = o]]
    /\ UNCHANGED <<now, store, nextId, cache, messages, nextMsgId, gwVars>>

\* Finish keeps no arguments; the ones of this call are kept with the result
HistoryList(p) ==
    /\ call[p].pc = "h_list"
    /\ \E result \in listBySession(messages, call[p].sid, call[p].page,
                                    call[p].pageSize, call[p].order) :
        call' = [call EXCEPT ![p].pc = "done", ![p].ret = result]
    /\ UNCHANGED <<now, store, nextId, cache, messages, nextMsgId, gwVars>>

(***************************************************************************)
(* Redis failing or losing keys.  RedisService.get swallows the error and  *)
(* returns null; set and del rethrow, and cacheSession and                 *)
(* removeCachedSession catch and log.                                      *)
(***************************************************************************)
CachePcs == {"g_cache", "g_evict", "g_set", "c_cache", "a_cache", "u_cache",
             "x_del", "d_del", "s_del"}

\* the Redis command of the call's current step fails
CacheFail(p) ==
    /\ call[p].pc \in CachePcs
    /\ CASE call[p].pc \in {"g_cache", "g_evict"} -> Goto(p, "g_find")
         [] call[p].pc = "g_set" -> AfterGet(p, call[p].snap)
         [] call[p].pc = "a_cache" -> AfterActivity(p, call[p].snap)
         [] call[p].pc \in {"c_cache", "u_cache"} ->
                Finish(p, Found(call[p].snap))
         [] call[p].pc = "x_del" -> AfterExpire(p)
         [] call[p].pc = "d_del" -> Finish(p, Ok)
         [] call[p].pc = "s_del" ->
                Finish(p, Count(Cardinality(call[p].ids)))
    /\ UNCHANGED <<now, store, nextId, cache, messages, nextMsgId, gwVars>>

\* a key's TTL (cacheExpirationSeconds) runs out, or the cache is empty
CacheTtl ==
    /\ \E id \in DOMAIN cache : cache' = CacheDel(cache, {id})
    /\ UNCHANGED <<now, store, nextId, messages, nextMsgId, call, gwVars>>

(***************************************************************************)
(* Scenario: session reads and lifecycle writes by one caller at a time.   *)
(***************************************************************************)
NextRead ==
    \/ Tick
    \/ \E p \in SeqProcs :
        \/ StartCreateSession(p) \/ CreateFind(p) \/ CreateInsert(p)
        \/ CreateCache(p)
        \/ StartExpireSession(p) \/ ExpireUpdate(p) \/ ExpireDel(p)
        \/ StartGetSession(p) \/ GetCached(p) \/ GetEvict(p) \/ GetFind(p)
        \/ GetSet(p)
        \/ StartUpdateSessionActivity(p) \/ ActivityWrite(p)
        \/ ActivityCache(p)
        \/ StartDeleteSession(p) \/ DeleteRow(p) \/ DeleteDel(p)
        \/ StartCleanup(p) \/ CleanupFind(p) \/ CleanupMark(p)
        \/ CleanupDel(p)

SpecRead == Init /\ [][NextRead]_vars

(***************************************************************************)
(* Scenario: concurrent createSession callers, one activity caller.        *)
(***************************************************************************)
NextCap ==
    \/ Tick
    \/ \E p \in Procs :
        \/ StartCreateSession(p) \/ CreateFind(p) \/ CreateInsert(p)
        \/ CreateCache(p)
        \/ ExpireUpdate(p) \/ ExpireDel(p)
    \/ \E p \in SeqProcs :
        \/ StartUpdateSessionActivity(p) \/ ActivityWrite(p)
        \/ ActivityCache(p)

SpecCap == Init /\ [][NextCap]_vars

(***************************************************************************)
(* Scenario: message appends concurrent with expiration, on a store that   *)
(* holds one session, as createSession("u1", {expiresAt}) leaves it at     *)
(* time 0, with an expiresAt the clock can pass.                           *)
(***************************************************************************)
FirstSession == RepoCreate(<<>>, 1, "u1", MaxTime - 1, 0)

InitChat ==
    /\ now = 0
    /\ store = FirstSession
    /\ nextId = 2
    /\ cache = CacheSet(<<>>, Snap(1, FirstSession[1]))
    /\ messages = <<>>
    /\ nextMsgId = 1
    /\ call = [p \in Procs |-> Idle]
    /\ InitGateway

NextChat ==
    \/ Tick
    \/ \E p \in Procs :
        \/ StartExpireSession(p) \/ ExpireUpdate(p) \/ ExpireDel(p)
        \/ StartCleanup(p) \/ CleanupFind(p) \/ CleanupMark(p)
        \/ CleanupDel(p)
        \/ StartProcessMessage(p) \/ StartCreateMessage(p)
        \/ GetCached(p) \/ GetEvict(p) \/ GetFind(p) \/ GetSet(p)
        \/ ActivityWrite(p) \/ ActivityCache(p)
        \/ MessageCreate(p)

SpecChat == InitChat /\ [][NextChat]_vars

(***************************************************************************)
(* Scenario: the append paths by one caller, with content that is empty,   *)
(* blank or padded, on a store that holds one session.                     *)
(***************************************************************************)
NextAppend ==
    \/ Tick
    \/ \E p \in SeqProcs :
        \/ StartAppendMessage(p) \/ AppendAssert(p)
        \/ StartProcessMessage(p) \/ StartCreateMessage(p)
        \/ GetCached(p) \/ GetEvict(p) \/ GetFind(p) \/ GetSet(p)
        \/ ExpireUpdate(p) \/ ExpireDel(p)
        \/ ActivityWrite(p) \/ ActivityCache(p)
        \/ MessageCreate(p)

SpecAppend == InitChat /\ [][NextAppend]_vars

(***************************************************************************)
(* Scenario: paging through a session's history by one caller, between     *)
(* appends.                                                                *)
(***************************************************************************)
NextHistory ==
    \/ Tick
    \/ \E p \in SeqProcs :
        \/ StartGetHistory(p) \/ HistoryList(p)
        \/ StartAppendMessage(p) \/ AppendAssert(p) \/ MessageCreate(p)

SpecHistory == InitChat /\ [][NextHistory]_vars

(***************************************************************************)
(* The HTTP management API.  JwtAuthGuard authenticates the principal;     *)
(* each controller method passes the session id of the path to the        *)
(* service.  uid holds the principal of the request.                       *)
(***************************************************************************)
SessionsController_getSession(p) ==
    /\ Free(p)
    /\ \E user \in Users, id \in 1..(nextId - 1) :
        call' = [call EXCEPT ![p] =
            [Idle EXCEPT !.op = "getSession", !.pc = "g_cache", !.sid = id,
                         !.uid = user]]
    /\ UNCHANGED <<now, store, nextId, cache, messages, nextMsgId, gwVars>>

SessionsController_updateSession(p) ==
    /\ Free(p)
    /\ \E user \in Users, id \in 1..(nextId - 1), s \in StatusArgs,
          e \in NewExpiresAtArgs :
        /\ s # <<>> \/ e # <<>>
        /\ call' = [call EXCEPT ![p] =
            [Idle EXCEPT !.op = "updateSession", !.pc = "u_find",
                         !.sid = id, !.st = s, !.exp = e, !.uid = user]]
    /\ UNCHANGED <<now, store, nextId, cache, messages, nextMsgId, gwVars>>

SessionsController_expireSession(p) ==
    /\ Free(p)
    /\ \E user \in Users, id \in 1..(nextId - 1) :
        call' = [call EXCEPT ![p] =
            [Idle EXCEPT !.op = "expireSession", !.pc = "x_update",
                         !.sid = id, !.uid = user]]
    /\ UNCHANGED <<now, store, nextId, cache, messages, nextMsgId, gwVars>>

SessionsController_deleteSession(p) ==
    /\ Free(p)
    /\ \E user \in Users, id \in 1..(nextId - 1) :
        call' = [call EXCEPT ![p] =
            [Idle EXCEPT !.op = "deleteSession", !.pc = "d_delete",
                         !.sid = id, !.uid = user]]
    /\ UNCHANGED <<now, store, nextId, cache, messages, nextMsgId, gwVars>>

\* POST chat/sessions/:sessionId/messages
ChatController_sendMessage(p) ==
    /\ Free(p)
    /\ nextMsgId + Cardinality(Appending) <= MaxMessages
    /\ \E user \in Users, id \in 1..(nextId - 1), content \in Contents :
        call' = [call EXCEPT ![p] =
            [Idle EXCEPT !.op = "createMessage", !.pc = "g_cache", !.sid = id,
                         !.content = content, !.uid = user]]
    /\ UNCHANGED <<now, store, nextId, cache, messages, nextMsgId, gwVars>>

(***************************************************************************)
(* Scenario: requests of two principals through the HTTP API, one at a     *)
(* time, on a store that holds one session of the first.                   *)
(***************************************************************************)
NextHttp ==
    \/ Tick
    \/ \E p \in SeqProcs :
        \/ SessionsController_getSession(p)
        \/ SessionsController_updateSession(p)
        \/ SessionsController_expireSession(p)
        \/ SessionsController_deleteSession(p)
        \/ ChatController_sendMessage(p)
        \/ GetCached(p) \/ GetEvict(p) \/ GetFind(p) \/ GetSet(p)
        \/ ExpireUpdate(p) \/ ExpireDel(p)
        \/ UpdateFind(p) \/ UpdateWrite(p) \/ UpdateCache(p)
        \/ DeleteRow(p) \/ DeleteDel(p)
        \/ MessageCreate(p) \/ ActivityWrite(p) \/ ActivityCache(p)

SpecHttp == InitChat /\ [][NextHttp]_vars

(***************************************************************************)
(* Scenario: one caller over an unreliable cache, from a store that holds  *)
(* the first session after a second one was created and deleted, at a time *)
(* when the first session is past its expiresAt.                           *)
(***************************************************************************)
InitCache ==
    /\ now = MaxTime
    /\ store = FirstSession
    /\ nextId = MaxSessions
    /\ cache = CacheSet(<<>>, Snap(1, FirstSession[1]))
    /\ messages = <<>>
    /\ nextMsgId = 1
    /\ call = [p \in Procs |-> Idle]
    /\ InitGateway

NextCache ==
    \/ CacheTtl
    \/ \E p \in SeqProcs :
        \/ CacheFail(p)
        \/ StartCreateSession(p) \/ CreateFind(p) \/ CreateInsert(p)
        \/ CreateCache(p)
        \/ StartExpireSession(p) \/ ExpireUpdate(p) \/ ExpireDel(p)
        \/ StartGetSession(p) \/ GetCached(p) \/ GetEvict(p) \/ GetFind(p)
        \/ GetSet(p)
        \/ StartUpdateSessionActivity(p) \/ ActivityWrite(p)
        \/ ActivityCache(p)
        \/ StartUpdateSession(p) \/ UpdateFind(p) \/ UpdateWrite(p)
        \/ UpdateCache(p)
        \/ StartDeleteSession(p) \/ DeleteRow(p) \/ DeleteDel(p)
        \/ StartCleanup(p) \/ CleanupFind(p) \/ CleanupMark(p)
        \/ CleanupDel(p)

SpecCache == InitCache /\ [][NextCache]_vars

(***************************************************************************)
(* Scenario: the cleanup sweep by one caller, among creations, updates and *)
(* expirations, from a store that holds the first session after a second   *)
(* one was created and deleted.                                            *)
(***************************************************************************)
InitSweep ==
    /\ now = 0
    /\ store = FirstSession
    /\ nextId = MaxSessions
    /\ cache = CacheSet(<<>>, Snap(1, FirstSession[1]))
    /\ messages = <<>>
    /\ nextMsgId = 1
    /\ call = [p \in Procs |-> Idle]
    /\ InitGateway

NextSweep ==
    \/ Tick
    \/ \E p \in SeqProcs :
        \/ StartCreateSession(p) \/ CreateFind(p) \/ CreateInsert(p)
        \/ CreateCache(p)
        \/ StartExpireSession(p) \/ ExpireUpdate(p) \/ ExpireDel(p)
        \/ StartUpdateSession(p) \/ UpdateFind(p) \/ UpdateWrite(p)
        \/ UpdateCache(p)
        \/ StartCleanup(p) \/ CleanupFind(p) \/ CleanupMark(p)
        \/ CleanupDel(p)

SpecSweep == InitSweep /\ [][NextSweep]_vars

(***************************************************************************)
(* SessionsScheduler: every hour the cron job calls cleanupExpiredSessions *)
(* and swallows what it throws.  The job is a caller of its own, next to   *)
(* the request path.                                                       *)
(***************************************************************************)
Scheduler == MaxCalls

handleExpiredSessionsCleanup ==
    \/ StartCleanup(Scheduler)
    \/ CleanupFind(Scheduler)
    \/ CleanupMark(Scheduler)
    \/ CleanupDel(Scheduler)

(***************************************************************************)
(* Scenario: the scheduled cleanup next to one caller who creates, updates *)
(* and deletes sessions; the job is scheduled fairly.                      *)
(***************************************************************************)
NextReclaim ==
    \/ Tick
    \/ handleExpiredSessionsCleanup
    \/ \E p \in SeqProcs :
        \/ StartCreateSession(p) \/ CreateFind(p) \/ CreateInsert(p)
        \/ CreateCache(p)
        \/ StartUpdateSession(p) \/ UpdateFind(p) \/ UpdateWrite(p)
        \/ UpdateCache(p)
        \/ StartDeleteSession(p) \/ DeleteRow(p) \/ DeleteDel(p)

SpecReclaim ==
    InitSweep /\ [][NextReclaim]_vars /\ WF_vars(handleExpiredSessionsCleanup)

(***************************************************************************)
(* Scenario: the purge by one caller, among sweeps, expirations, updates   *)
(* and deletions.  At time 1 the store holds three sessions created at     *)
(* time 0: one with expiresAt 0 that a sweep has marked EXPIRED, one with  *)
(* expiresAt 0 still ACTIVE, and one not yet past its expiresAt; the first *)
(* two received a message each at time 0.                                  *)
(***************************************************************************)
PurgeSessions ==
    LET a == RepoCreate(<<>>, 1, "u1", 0, 0)
        b == RepoCreate(a, 2, "u1", 0, 0)
        c == RepoCreate(b, 3, "u2", MaxTime, 0)
    IN RepoUpdateStatus(c, 1, "EXPIRED")

InitPurge ==
    /\ now = 1
    /\ store = PurgeSessions
    /\ nextId = 4
    /\ cache = CacheSet(CacheSet(<<>>, Snap(2, PurgeSessions[2])),
                        Snap(3, PurgeSessions[3]))
    /\ messages = <<NewMessage(1, 1, 0, <<"h">>), NewMessage(2, 2, 0, <<"h">>)>>
    /\ nextMsgId = 3
    /\ call = [p \in Procs |-> Idle]
    /\ InitGateway

NextPurge ==
    \/ Tick
    \/ \E p \in SeqProcs :
        \/ StartDeleteOldExpiredSessions(p) \/ DeleteOldExpired(p)
        \/ StartExpireSession(p) \/ ExpireUpdate(p) \/ ExpireDel(p)
        \/ StartUpdateSession(p) \/ UpdateFind(p) \/ UpdateWrite(p)
        \/ UpdateCache(p)
        \/ StartDeleteSession(p) \/ DeleteRow(p) \/ DeleteDel(p)
        \/ StartCleanup(p) \/ CleanupFind(p) \/ CleanupMark(p)
        \/ CleanupDel(p)

SpecPurge == InitPurge /\ [][NextPurge]_vars

(***************************************************************************)
(* Scenario: concurrent updateSessionActivity callers on the same store,   *)
(* with expiration and deletion of the session in between.                 *)
(***************************************************************************)
NextActivity ==
    \/ Tick
    \/ \E p \in Procs :
        \/ StartUpdateSessionActivity(p) \/ ActivityWrite(p)
        \/ ActivityCache(p)
    \/ \E p \in SeqProcs :
        \/ StartExpireSession(p) \/ ExpireUpdate(p) \/ ExpireDel(p)
        \/ StartDeleteSession(p) \/ DeleteRow(p) \/ DeleteDel(p)

SpecActivity == InitChat /\ [][NextActivity]_vars

(***************************************************************************)
(* The service calls the gateway awaits, run to completion at time t:      *)
(* what each returns and the store and cache it leaves.                    *)
(***************************************************************************)
GetSessionRet(st, id, t) ==
    IF Exists(st, id) /\ ~isSessionExpired(st[id], t)
    THEN Found(Snap(id, st[id]))
    ELSE Null

GetSessionStore(st, id, t) ==
    IF Exists(st, id) /\ isSessionExpired(st[id], t)
    THEN RepoUpdateStatus(st, id, "EXPIRED")
    ELSE st

GetSessionCache(c, st, id, t) ==
    IF ~Exists(st, id)
    THEN IF id \in DOMAIN c /\ t > c[id].expiresAt THEN CacheDel(c, {id}) ELSE c
    ELSE IF isSessionExpired(st[id], t)
         THEN CacheDel(c, {id})
         ELSE CacheSet(c, Snap(id, st[id]))

UpdateSessionActivityStore(st, id, t) == RepoUpdateLastActivity(st, id, t)

UpdateSessionActivityCache(c, st, id, t) ==
    CacheSet(c, Snap(id, UpdateSessionActivityStore(st, id, t)[id]))

(***************************************************************************)
(* ChatGateway: sockets, the connections map, rooms and events.            *)
(***************************************************************************)
\* what authenticateConnection makes of the socket's token: a user or null
Tokens == Users \cup {"-"}

Ev(name, sid, message) == [name |-> name, sid |-> sid, message |-> message]
ErrorEv(message) == Ev("error", 0, message)
\* session_joined carries the session id and the recent messages
SessionJoined(sid, recentMessages) ==
    [name |-> "session_joined", sid |-> sid, message |-> "",
     recentMessages |-> recentMessages]

\* the events one handler step emits, per socket
Nothing == [d \in Clients |-> {}]
ToClient(c, e) == [d \in Clients |-> IF d = c THEN {e} ELSE {}]

\* the sockets the adapter has in room session:<sid>
InRoom(sid) == {d \in Clients : sid \in rooms[d] /\ sock[d] # "closed"}

\* client.to(room): the room without the socket itself
ClientTo(c, sid) == InRoom(sid) \ {c}

\* the first slot with no handler in flight
FreeHandler(h) ==
    /\ handler[h].pc = "idle"
    /\ \A g \in Handlers : g < h => handler[g].pc # "idle"
Release(h) == handler' = [handler EXCEPT ![h] = NoHandler]
Await(h, op, pc, c, sid) ==
    handler' = [handler EXCEPT ![h] =
        [op |-> op, pc |-> pc, client |-> c, sid |-> sid, content |-> <<>>,
         session |-> Null]]

Sending == {h \in Handlers : handler[h].op = "send_message"}

\* handleConnection without the check of the authentication result
handleConnectionUnchecked(c) ==
    /\ sock[c] = "new"
    /\ \E user \in Tokens :
        /\ sock' = [sock EXCEPT ![c] = "open"]
        /\ conn' = [conn EXCEPT ![c] =
                [registered |-> TRUE, userId |-> user, sessionId |-> 0]]
        /\ events' = ToClient(c, Ev("connected", 0, user))
    /\ UNCHANGED <<svcVars, rooms, handler, received>>

\* handleConnection
handleConnection(c) ==
    /\ sock[c] = "new"
    /\ \E user \in Tokens :
        IF user = "-"
        THEN /\ sock' = [sock EXCEPT ![c] = "closed"]
             /\ events' = Nothing
             /\ UNCHANGED conn
        ELSE /\ sock' = [sock EXCEPT ![c] = "open"]
             /\ conn' = [conn EXCEPT ![c] =
                    [registered |-> TRUE, userId |-> user, sessionId |-> 0]]
             /\ events' = ToClient(c, Ev("connected", 0, user))
    /\ UNCHANGED <<svcVars, rooms, handler, received>>

\* handleJoinSession up to the await of getSession
StartJoinSession(h, c) ==
    /\ sock[c] # "closed"
    /\ FreeHandler(h)
    /\ \E sid \in 1..(nextId - 1) :
        IF ~conn[c].registered
        THEN /\ events' = ToClient(c, ErrorEv("Connection not authenticated"))
             /\ UNCHANGED handler
        ELSE /\ Await(h, "join_session", "j_get", c, sid)
             /\ events' = Nothing
    /\ UNCHANGED <<svcVars, sock, conn, rooms, received>>

\* an access check that lets every authenticated user in
accessDeniedNever(session, connectionData) == FALSE

\* session.userId !== connectionData.userId
accessDenied(session, connectionData) ==
    session.userId # connectionData.userId

\* getSession returns: the checks, the room change, up to the await of
\* updateSessionActivity
JoinGet(h) ==
    /\ handler[h].pc = "j_get"
    /\ LET c == handler[h].client
           sid == handler[h].sid
           session == GetSessionRet(store, sid, now)
       IN /\ store' = GetSessionStore(store, sid, now)
          /\ cache' = GetSessionCache(cache, store, sid, now)
          /\ IF session = Null
             THEN /\ events' = ToClient(c, ErrorEv("Session not found or expired"))
                  /\ Release(h)
                  /\ UNCHANGED <<conn, rooms>>
             ELSE IF accessDenied(session.session, conn[c])
             THEN /\ events' = ToClient(c, ErrorEv("Access denied to session"))
                  /\ Release(h)
                  /\ UNCHANGED <<conn, rooms>>
             ELSE /\ rooms' = [rooms EXCEPT ![c] =
                        (IF conn[c].sessionId # 0
                         THEN @ \ {conn[c].sessionId} ELSE @) \cup {sid}]
                  /\ conn' = [conn EXCEPT ![c].sessionId = sid,
                                          ![c].registered = TRUE]
                  /\ handler' = [handler EXCEPT ![h].pc = "j_activity"]
                  /\ events' = Nothing
    /\ UNCHANGED <<now, nextId, messages, nextMsgId, call, sock, received>>

\* updateSessionActivity returns, up to the await of getRecentMessages
JoinActivity(h) ==
    /\ handler[h].pc = "j_activity"
    /\ LET c == handler[h].client
           sid == handler[h].sid
       IN IF Exists(store, sid)
          THEN /\ store' = UpdateSessionActivityStore(store, sid, now)
               /\ cache' = UpdateSessionActivityCache(cache, store, sid, now)
               /\ handler' = [handler EXCEPT ![h].pc = "j_recent"]
               /\ events' = Nothing
          ELSE /\ events' = ToClient(c, ErrorEv("Record to update not found"))
               /\ Release(h)
               /\ UNCHANGED <<store, cache>>
    /\ UNCHANGED <<now, nextId, messages, nextMsgId, call, sock, conn, rooms,
                   received>>

\* the limit handleJoinSession passes to getRecentMessages
recentLimit == 10

\* the rows of the greatest timestamp
Latest(rows) ==
    {m \in rows : \A o \in rows : o.timestamp <= m.timestamp}

\* orderBy timestamp desc, take: the results the database may return; rows
\* with equal timestamps come in any order
RECURSIVE TakeRecent(_, _)
TakeRecent(rows, take) ==
    IF take = 0 \/ rows = {}
    THEN {<<>>}
    ELSE UNION {{<<m>> \o r : r \in TakeRecent(rows \ {m}, take - 1)} :
                m \in Latest(rows)}

\* a query that takes every row of the session
findRecentBySessionIdUnlimited(ms, sid, limit) ==
    TakeRecent({ms[i] : i \in {j \in 1..Len(ms) : ms[j].sessionId = sid}},
               Len(ms))

findRecentBySessionId(ms, sid, limit) ==
    TakeRecent({ms[i] : i \in {j \in 1..Len(ms) : ms[j].sessionId = sid}},
               limit)

\* getRecentMessages returns: session_joined to the socket, user_joined to
\* the rest of the room
JoinRecent(h) ==
    /\ handler[h].pc = "j_recent"
    /\ LET c == handler[h].client
           sid == handler[h].sid
           session == GetSessionRet(store, sid, now)
       IN /\ store' = GetSessionStore(store, sid, now)
          /\ cache' = GetSessionCache(cache, store, sid, now)
          /\ IF session = Null
             THEN events' = ToClient(c, ErrorEv("Session not found or expired"))
             ELSE \E recentMessages \in
                        findRecentBySessionId(messages, sid, recentLimit) :
                    events' = [d \in Clients |->
                        IF d = c
                        THEN {SessionJoined(sid, recentMessages)}
                        ELSE IF d \in ClientTo(c, sid)
                        THEN {Ev("user_joined", sid, conn[c].userId)}
                        ELSE {}]
    /\ Release(h)
    /\ UNCHANGED <<now, nextId, messages, nextMsgId, call, sock, conn, rooms,
                   received>>

\* handleLeaveSession up to the await of updateSessionActivity
StartLeaveSession(h, c) ==
    /\ sock[c] # "closed"
    /\ FreeHandler(h)
    /\ conn[c].registered
    /\ conn[c].sessionId # 0
    /\ rooms' = [rooms EXCEPT ![c] = @ \ {conn[c].sessionId}]
    /\ Await(h, "leave_session", "l_activity", c, conn[c].sessionId)
    /\ events' = Nothing
    /\ UNCHANGED <<svcVars, sock, conn, received>>

\* updateSessionActivity returns: user_left to the room, the connection's
\* sessionId cleared, session_left to the socket
LeaveActivity(h) ==
    /\ handler[h].pc = "l_activity"
    /\ LET c == handler[h].client
           sid == handler[h].sid
       IN IF Exists(store, sid)
          THEN /\ store' = UpdateSessionActivityStore(store, sid, now)
               /\ cache' = UpdateSessionActivityCache(cache, store, sid, now)
               /\ conn' = [conn EXCEPT ![c].sessionId = 0,
                                       ![c].registered = TRUE]
               /\ events' = [d \in Clients |->
                    IF d = c
                    THEN {Ev("session_left", sid, "")}
                    ELSE IF d \in ClientTo(c, sid)
                    THEN {Ev("user_left", sid, conn[c].userId)}
                    ELSE {}]
          ELSE /\ events' = ToClient(c, ErrorEv("Failed to leave session"))
               /\ UNCHANGED <<store, cache, conn>>
    /\ Release(h)
    /\ UNCHANGED <<now, nextId, messages, nextMsgId, call, sock, rooms,
                   received>>

\* handleMessage up to the await of processMessage: the payload takes the
\* connection's sessionId as it is now
StartSendMessage(h, c) ==
    /\ sock[c] # "closed"
    /\ FreeHandler(h)
    /\ IF conn[c].registered /\ conn[c].sessionId # 0
       THEN /\ nextMsgId + Cardinality(Sending) <= MaxSends
            /\ \E content \in Contents :
                handler' = [handler EXCEPT ![h] =
                    [op |-> "send_message", pc |-> "s_process", client |-> c,
                     sid |-> conn[c].sessionId, content |-> content,
                     session |-> Null]]
            /\ events' = Nothing
       ELSE /\ events' = ToClient(c, ErrorEv("Not connected to a session"))
            /\ UNCHANGED handler
    /\ UNCHANGED <<svcVars, sock, conn, rooms, received>>

\* server.to(room).emit: the event follows what the socket was sent before
emit(q, m) == Append(q, m)

\* processMessage returns: the message is broadcast to the room named by
\* the connection's sessionId as it is at this point
SendProcess(h) ==
    /\ handler[h].pc = "s_process"
    /\ LET c == handler[h].client
           sid == handler[h].sid
           session == GetSessionRet(store, sid, now)
           m == NewMessage(nextMsgId, sid, now, handler[h].content)
       IN IF session = Null
          THEN /\ store' = GetSessionStore(store, sid, now)
               /\ cache' = GetSessionCache(cache, store, sid, now)
               /\ events' = ToClient(c, ErrorEv("Session not found or expired"))
               /\ UNCHANGED <<messages, nextMsgId, received>>
          ELSE /\ store' = UpdateSessionActivityStore(store, sid, now)
               /\ cache' = UpdateSessionActivityCache(cache, store, sid, now)
               /\ messages' = Append(messages, m)
               /\ nextMsgId' = nextMsgId + 1
               /\ received' = [d \in Clients |->
                    IF d \in InRoom(conn[c].sessionId)
                    THEN emit(received[d], m)
                    ELSE received[d]]
               /\ events' = Nothing
    /\ Release(h)
    /\ UNCHANGED <<now, nextId, call, sock, conn, rooms>>

\* typing_indicator carries the registry's sessionId and userId and the flag
TypingIndicator(sid, userId, isTyping) ==
    [name |-> "typing_indicator", sid |-> sid, message |-> userId,
     isTyping |-> isTyping]

\* handleTyping: no await; the indicator goes to the room named by the
\* connection's sessionId, without the socket itself
handleTyping(c) ==
    /\ sock[c] # "closed"
    /\ \E isTyping \in BOOLEAN :
        IF ~conn[c].registered \/ conn[c].sessionId = 0
        THEN events' = Nothing
        ELSE events' = [d \in Clients |->
                IF d \in ClientTo(c, conn[c].sessionId)
                THEN {TypingIndicator(conn[c].sessionId, conn[c].userId,
                                      isTyping)}
                ELSE {}]
    /\ UNCHANGED <<svcVars, sock, conn, rooms, handler, received>>

\* session_info: not connected, or the session as getSession returned it
\* and the message count
NotConnectedInfo ==
    [name |-> "session_info", connected |-> FALSE, sid |-> 0, message |-> ""]
SessionInfo(sid, session, messageCount) ==
    [name |-> "session_info", connected |-> TRUE, sid |-> sid, message |-> "",
     session |-> [id |-> session.id, status |-> session.status,
                  lastActivity |-> session.lastActivity],
     messageCount |-> messageCount]

\* handleGetSessionInfo up to the await of getSession
StartGetSessionInfo(h, c) ==
    /\ sock[c] # "closed"
    /\ FreeHandler(h)
    /\ IF ~conn[c].registered \/ conn[c].sessionId = 0
       THEN /\ events' = ToClient(c, NotConnectedInfo)
            /\ UNCHANGED handler
       ELSE /\ Await(h, "get_session_info", "i_get", c, conn[c].sessionId)
            /\ events' = Nothing
    /\ UNCHANGED <<svcVars, sock, conn, rooms, received>>

\* getSession returns; getMessageCount is called with the connection's
\* sessionId as it is now, and rejects an id that is unset
InfoGet(h) ==
    /\ handler[h].pc = "i_get"
    /\ LET c == handler[h].client
           sid == handler[h].sid
       IN /\ store' = GetSessionStore(store, sid, now)
          /\ cache' = GetSessionCache(cache, store, sid, now)
          /\ IF conn[c].sessionId = 0
             THEN /\ events' = ToClient(c, ErrorEv("Failed to get session info"))
                  /\ Release(h)
             ELSE /\ handler' = [handler EXCEPT
                        ![h].pc = "i_count",
                        ![h].sid = conn[c].sessionId,
                        ![h].session = GetSessionRet(store, sid, now)]
                  /\ events' = Nothing
    /\ UNCHANGED <<now, nextId, messages, nextMsgId, call, sock, conn, rooms,
                   received>>

\* getMessageCount returns: the payload reads session.id, which throws
\* when getSession returned null
InfoCount(h) ==
    /\ handler[h].pc = "i_count"
    /\ LET c == handler[h].client
           session == handler[h].session
       IN IF session = Null
          THEN events' = ToClient(c, ErrorEv("Failed to get session info"))
          ELSE events' = ToClient(c,
                    SessionInfo(conn[c].sessionId, session.session,
                                countBySessionId(messages, handler[h].sid)))
    /\ Release(h)
    /\ UNCHANGED <<svcVars, sock, conn, rooms, received>>

\* the socket closes: the adapter takes it out of its rooms, then
\* handleDisconnect runs up to the await of updateSessionActivity
StartDisconnect(h, c) ==
    /\ sock[c] = "open"
    /\ sock' = [sock EXCEPT ![c] = "closed"]
    /\ rooms' = [rooms EXCEPT ![c] = {}]
    /\ events' = Nothing
    /\ IF conn[c].registered /\ conn[c].sessionId # 0
       THEN /\ FreeHandler(h)
            /\ Await(h, "disconnect", "d_activity", c, conn[c].sessionId)
            /\ UNCHANGED conn
       ELSE /\ conn' = [conn EXCEPT ![c].registered = FALSE]
            /\ UNCHANGED handler
    /\ UNCHANGED <<svcVars, received>>

\* updateSessionActivity returns: user_disconnected to the room named by
\* the connection's sessionId as it is at this point, then the registry
\* entry is deleted
DisconnectActivity(h) ==
    /\ handler[h].pc = "d_activity"
    /\ LET c == handler[h].client
           sid == handler[h].sid
       IN IF Exists(store, sid)
          THEN /\ store' = UpdateSessionActivityStore(store, sid, now)
               /\ cache' = UpdateSessionActivityCache(cache, store, sid, now)
               /\ events' = [d \in Clients |->
                    IF d \in ClientTo(c, conn[c].sessionId)
                    THEN {Ev("user_disconnected", conn[c].sessionId,
                             conn[c].userId)}
                    ELSE {}]
          ELSE /\ events' = Nothing
               /\ UNCHANGED <<store, cache>>
    /\ conn' = [conn EXCEPT ![handler[h].client].registered = FALSE]
    /\ Release(h)
    /\ UNCHANGED <<now, nextId, messages, nextMsgId, call, sock, rooms,
                   received>>

(***************************************************************************)
(* Scenario: the gateway over a store that holds two sessions of u1, as    *)
(* createSession leaves them at time 0, the first with the messages that   *)
(* HTTP requests appended at time 0.                                       *)
(***************************************************************************)
GatewaySessions ==
    RepoCreate(
        RepoCreate(<<>>, 1, "u1", calculateDefaultExpiration(0), 0),
        2, "u1", calculateDefaultExpiration(0), 0)

InitGw ==
    /\ now = 0
    /\ store = GatewaySessions
    /\ nextId = 3
    /\ cache = [id \in DOMAIN GatewaySessions |-> Snap(id, GatewaySessions[id])]
    /\ messages = <<NewMessage(1, 1, 0, <<"h">>)>>
    /\ nextMsgId = MaxSends
    /\ call = [p \in Procs |-> Idle]
    /\ InitGateway

NextGw ==
    \/ \E c \in Clients : handleConnection(c)
    \/ \E h \in Handlers, c \in Clients :
        \/ StartJoinSession(h, c)
        \/ StartLeaveSession(h, c)
        \/ StartSendMessage(h, c)
        \/ StartDisconnect(h, c)
    \/ \E h \in Handlers :
        \/ JoinGet(h) \/ JoinActivity(h) \/ JoinRecent(h)
        \/ LeaveActivity(h)
        \/ SendProcess(h)
        \/ DisconnectActivity(h)

SpecGw == InitGw /\ [][NextGw]_vars

(***************************************************************************)
(* Scenario: concurrent senders over a store that holds one session and no *)
(* message yet; connections join, leave and send.                          *)
(***************************************************************************)
NextOrder ==
    \/ \E c \in Clients : handleConnection(c)
    \/ \E h \in Handlers, c \in Clients :
        \/ StartJoinSession(h, c)
        \/ StartLeaveSession(h, c)
        \/ StartSendMessage(h, c)
    \/ \E h \in Handlers :
        \/ JoinGet(h) \/ JoinActivity(h) \/ JoinRecent(h)
        \/ LeaveActivity(h)
        \/ SendProcess(h)

SpecOrder == InitChat /\ [][NextOrder]_vars

(***************************************************************************)
(* Scenario: connections join and close while a caller deletes the         *)
(* session, on a store that holds one session.                             *)
(***************************************************************************)
NextClose ==
    \/ \E c \in Clients : handleConnection(c)
    \/ \E h \in Handlers, c \in Clients :
        \/ StartJoinSession(h, c)
        \/ StartDisconnect(h, c)
    \/ \E h \in Handlers :
        \/ JoinGet(h) \/ JoinActivity(h) \/ JoinRecent(h)
        \/ DisconnectActivity(h)
    \/ \E p \in SeqProcs :
        \/ StartDeleteSession(p) \/ DeleteRow(p) \/ DeleteDel(p)

SpecClose == InitChat /\ [][NextClose]_vars

(***************************************************************************)
(* Scenario: the scheduler's sweep concurrent with one caller that updates *)
(* and deletes the session, from the store of the sweep scenario.          *)
(***************************************************************************)
NextRenew ==
    \/ Tick
    \/ handleExpiredSessionsCleanup
    \/ \E p \in SeqProcs :
        \/ StartUpdateSession(p) \/ UpdateFind(p) \/ UpdateWrite(p)
        \/ UpdateCache(p)
        \/ StartDeleteSession(p) \/ DeleteRow(p) \/ DeleteDel(p)

SpecRenew == InitSweep /\ [][NextRenew]_vars

(***************************************************************************)
(* Scenario: joins of a session that holds one message more than a join    *)
(* returns. The session was created at time 0 and a message was appended   *)
(* at each of the times 1 .. recentLimit + 1; the clock stands at the last *)
(* append.                                                                 *)
(***************************************************************************)
LongHistory ==
    [i \in 1..(recentLimit + 1) |-> NewMessage(i, 1, i, <<"h">>)]

LongSession == RepoCreate(<<>>, 1, "u1", recentLimit + 2, 0)

InitWelcome ==
    /\ now = recentLimit + 1
    /\ store = LongSession
    /\ nextId = 2
    /\ cache = <<>>
    /\ messages = LongHistory
    /\ nextMsgId = recentLimit + 2
    /\ call = [p \in Procs |-> Idle]
    /\ InitGateway

NextWelcome ==
    \/ \E c \in Clients : handleConnection(c)
    \/ \E h \in Handlers, c \in Clients : StartJoinSession(h, c)
    \/ \E h \in Handlers :
        \/ JoinGet(h) \/ JoinActivity(h) \/ JoinRecent(h)

SpecWelcome == InitWelcome /\ [][NextWelcome]_vars

(***************************************************************************)
(* Scenario: typing events among joins and leaves of the one session.      *)
(***************************************************************************)
NextTyping ==
    \/ \E c \in Clients :
        \/ handleConnection(c)
        \/ handleTyping(c)
    \/ \E h \in Handlers, c \in Clients :
        \/ StartJoinSession(h, c)
        \/ StartLeaveSession(h, c)
    \/ \E h \in Handlers :
        \/ JoinGet(h) \/ JoinActivity(h) \/ JoinRecent(h)
        \/ LeaveActivity(h)

SpecTyping == InitChat /\ [][NextTyping]_vars

(***************************************************************************)
(* Scenario: get_session_info after joins, while the clock passes the      *)
(* session's expiresAt and one caller deletes the session.                 *)
(***************************************************************************)
NextInfo ==
    \/ Tick
    \/ \E c \in Clients : handleConnection(c)
    \/ \E h \in Handlers, c \in Clients :
        \/ StartJoinSession(h, c)
        \/ StartGetSessionInfo(h, c)
    \/ \E h \in Handlers :
        \/ JoinGet(h) \/ JoinActivity(h) \/ JoinRecent(h)
        \/ InfoGet(h) \/ InfoCount(h)
    \/ \E p \in SeqProcs :
        \/ StartDeleteSession(p) \/ DeleteRow(p) \/ DeleteDel(p)

SpecInfo == InitChat /\ [][NextInfo]_vars

(***************************************************************************)
(* Scenario: one caller edits, deletes and clears messages over the store  *)
(* of the purge scenario, while the clock moves and sessions are expired   *)
(* and deleted.                                                            *)
(***************************************************************************)
NextEdit ==
    \/ Tick
    \/ \E p \in SeqProcs :
        \/ StartUpdateMessage(p) \/ StartDeleteMessage(p)
        \/ EditFind(p) \/ EditWrite(p)
        \/ StartClearConversation(p) \/ GetCached(p) \/ GetEvict(p)
        \/ GetFind(p) \/ GetSet(p)
        \/ StartExpireSession(p) \/ ExpireUpdate(p) \/ ExpireDel(p)
        \/ ClearDelete(p)
        \/ StartDeleteSession(p) \/ DeleteRow(p) \/ DeleteDel(p)

SpecEdit == InitPurge /\ [][NextEdit]_vars

(***************************************************************************)
(* Scenario: message appends concurrent with the deletion of their         *)
(* session.                                                                *)
(***************************************************************************)
NextBump ==
    \/ \E p \in Procs :
        \/ StartProcessMessage(p) \/ StartCreateMessage(p)
        \/ GetCached(p) \/ GetEvict(p) \/ GetFind(p) \/ GetSet(p)
        \/ ExpireUpdate(p) \/ ExpireDel(p)
        \/ ActivityWrite(p) \/ ActivityCache(p)
        \/ MessageCreate(p)
        \/ StartDeleteSession(p) \/ DeleteRow(p) \/ DeleteDel(p)
    \/ Tick

SpecBump == InitChat /\ [][NextBump]_vars

(***************************************************************************)
(* Scenario: first joins. A join_session request arrives only at a socket  *)
(* that is in no room, has no sessionId and has no handler in flight,      *)
(* while one caller deletes the session and the clock passes its           *)
(* expiresAt.                                                              *)
(***************************************************************************)
NextFirstJoin ==
    \/ Tick
    \/ \E c \in Clients : handleConnection(c)
    \/ \E h \in Handlers, c \in Clients :
        /\ rooms[c] = {}
        /\ conn[c].sessionId = 0
        /\ \A g \in Handlers : handler[g].client # c
        /\ StartJoinSession(h, c)
    \/ \E h \in Handlers :
        \/ JoinGet(h) \/ JoinActivity(h) \/ JoinRecent(h)
    \/ \E p \in SeqProcs :
        \/ StartDeleteSession(p) \/ DeleteRow(p) \/ DeleteDel(p)

SpecFirstJoin == InitChat /\ [][NextFirstJoin]_vars

(***************************************************************************)
(* Scenario: sockets of u1 and u2 join, leave and close over a store that  *)
(* holds one session of each user, as createSession leaves them at time 0. *)
(***************************************************************************)
OwnedSessions ==
    RepoCreate(
        RepoCreate(<<>>, 1, "u1", calculateDefaultExpiration(0), 0),
        2, "u2", calculateDefaultExpiration(0), 0)

InitOwn ==
    /\ now = 0
    /\ store = OwnedSessions
    /\ nextId = 3
    /\ cache = [id \in DOMAIN OwnedSessions |-> Snap(id, OwnedSessions[id])]
    /\ messages = <<>>
    /\ nextMsgId = 1
    /\ call = [p \in Procs |-> Idle]
    /\ InitGateway

NextOwn ==
    \/ \E c \in Clients : handleConnection(c)
    \/ \E h \in Handlers, c \in Clients :
        \/ StartJoinSession(h, c)
        \/ StartLeaveSession(h, c)
        \/ StartDisconnect(h, c)
    \/ \E h \in Handlers :
        \/ JoinGet(h) \/ JoinActivity(h) \/ JoinRecent(h)
        \/ LeaveActivity(h)
        \/ DisconnectActivity(h)

SpecOwn == InitOwn /\ [][NextOwn]_vars

(***************************************************************************)
(* Scenario: joining and leaving over a store at time 1 that holds, all    *)
(* of u1 and created at time 0: session 1 live, session 2 expired by       *)
(* expireSession before its expiresAt, session 3 past its expiresAt and    *)
(* not yet swept; session 4 has been deleted.                              *)
(***************************************************************************)
JoinSessions ==
    RepoCreate(
        RepoUpdateStatus(
            RepoCreate(
                RepoCreate(<<>>, 1, "u1", calculateDefaultExpiration(0), 0),
                2, "u1", calculateDefaultExpiration(0), 0),
            2, "EXPIRED"),
        3, "u1", 0, 0)

InitJoin ==
    /\ now = 1
    /\ store = JoinSessions
    /\ nextId = 5
    /\ cache = CacheSet(CacheSet(<<>>, Snap(1, JoinSessions[1])),
                        Snap(3, JoinSessions[3]))
    /\ messages = <<>>
    /\ nextMsgId = 1
    /\ call = [p \in Procs |-> Idle]
    /\ InitGateway

NextJoin ==
    \/ \E c \in Clients : handleConnection(c)
    \/ \E h \in Handlers, c \in Clients :
        \/ StartJoinSession(h, c)
        \/ StartLeaveSession(h, c)
    \/ \E h \in Handlers :
        \/ JoinGet(h) \/ JoinActivity(h) \/ JoinRecent(h)
        \/ LeaveActivity(h)

SpecJoin == InitJoin /\ [][NextJoin]_vars

(***************************************************************************)
(* Properties of the session lifecycle.                                    *)
(***************************************************************************)

\* C1: once a session's durable status is EXPIRED, getSession returns null
\* for it: no getSession call returns a row whose status is EXPIRED.
C1_ExpiredNeverReturned ==
    \A p \in Procs :
        (call[p].op = "getSession" /\ call[p].pc = "done"
            /\ call[p].ret.kind = "session")
        => call[p].ret.session.status # "EXPIRED"

NewMessages == {i \in 1..Len(messages') : messages'[i].id >= nextMsgId}

\* C2: at the instant a message row is created its session exists, is
\* ACTIVE and has not passed expiresAt.
C2_AppendOnlyToLive ==
    [][\A i \in NewMessages :
        LET sid == messages'[i].sessionId IN
        /\ Exists(store, sid)
        /\ store[sid].status = "ACTIVE"
        /\ ~(now > store[sid].expiresAt)]_vars

\* C3: when a send_message handler persists a message for session S, every
\* socket that is in room S at the broadcast gets exactly one
\* message_received carrying that message.
C3_BroadcastToRoomOfMessage ==
    [][\A h \in Handlers :
        (handler[h].pc = "s_process" /\ Len(messages') > Len(messages))
        => \A d \in InRoom(handler[h].sid) :
            received'[d] = Append(received[d], messages'[Len(messages')])]_vars

\* C4: a socket gets a message_received for a message of session S only
\* while it is in room S.
C4_OnlySubscribersReceive ==
    [][\A d \in Clients :
        received'[d] # received[d]
        => /\ Len(received'[d]) = Len(received[d]) + 1
           /\ received'[d][Len(received'[d])].sessionId \in rooms[d]]_vars

\* C5: every socket is in at most one session room.
C5_AtMostOneRoom ==
    \A c \in Clients : Cardinality(rooms[c]) <= 1

\* C6: no owner ever has more than maxActiveSessions sessions that are
\* ACTIVE with expiresAt still ahead.
C6_Live(uid) ==
    {id \in DOMAIN store :
        /\ store[id].userId = uid
        /\ store[id].status = "ACTIVE"
        /\ store[id].expiresAt > now}

C6_CapNeverExceeded ==
    \A uid \in Users : Cardinality(C6_Live(uid)) <= maxActiveSessions

C7_StatusActive(uid) ==
    {id \in DOMAIN store :
        store[id].userId = uid /\ store[id].status = "ACTIVE"}

C7_Oldest(ids) ==
    {id \in ids : \A j \in ids : store[id].lastActivity <= store[j].lastActivity}

C7_LookupDone(p) ==
    /\ call[p].op = "createSession"
    /\ call[p].pc = "c_find"
    /\ call'[p].pc # "c_find"

C7_Evicts(p, ids) ==
    /\ call'[p].pc = "x_update"
    /\ call'[p].sid \in C7_Oldest(ids)

\* C7 as stated: an owner with maxActiveSessions sessions of status ACTIVE
\* has the one with the smallest lastActivity among them expired.
C7_EvictsOldestOfStatusActive ==
    [][\A p \in Procs :
        (C7_LookupDone(p)
            /\ Cardinality(C7_StatusActive(call[p].uid)) >= maxActiveSessions)
        => C7_Evicts(p, C7_StatusActive(call[p].uid))]_vars

\* C7 amended: the sessions that count are the owner's ACTIVE sessions with
\* expiresAt still ahead at the lookup; the one expired has the smallest
\* lastActivity among them, it is the only row the eviction changes, and
\* the new row is ACTIVE and the owner's.
C7_EvictsOldestOfLive ==
    [][\A p \in Procs :
        /\ (C7_LookupDone(p)
                /\ Cardinality(C6_Live(call[p].uid)) >= maxActiveSessions)
            => C7_Evicts(p, C6_Live(call[p].uid))
        /\ (C7_LookupDone(p)
                /\ Cardinality(C6_Live(call[p].uid)) < maxActiveSessions)
            => call'[p].pc = "c_create" /\ store' = store
        /\ (call[p].op = "createSession" /\ call[p].pc = "x_update"
                /\ call'[p].pc # "x_update")
            => /\ DOMAIN store' = DOMAIN store
               /\ \A id \in DOMAIN store :
                    IF id = call[p].sid
                    THEN store'[id] = [store[id] EXCEPT !.status = "EXPIRED"]
                    ELSE store'[id] = store[id]
        /\ (call[p].pc = "c_create" /\ call'[p].pc # "c_create")
            => /\ DOMAIN store' = DOMAIN store \cup {nextId}
               /\ nextId \notin DOMAIN store
               /\ store'[nextId].status = "ACTIVE"
               /\ store'[nextId].userId = call[p].uid
               /\ \A id \in DOMAIN store : store'[id] = store[id]]_vars

\* C7 witness: a createSession that found the owner at the limit has
\* expired a session and returned the new ACTIVE one.
C7_Witness ==
    \E p \in Procs :
        /\ call[p].op = "createSession" /\ call[p].pc = "done"
        /\ call[p].ret.kind = "session"
        /\ call[p].ret.session.status = "ACTIVE"
        /\ \E id \in DOMAIN store :
            /\ store[id].userId = call[p].uid
            /\ store[id].status = "EXPIRED"
            /\ store[id].expiresAt > now

\* C8: the write of updateSessionActivity leaves lastActivity at the
\* call's time t and expiresAt at t plus the inactivity window.
C8_SlidingWindow ==
    [][\A p \in Procs :
        (call[p].pc = "a_write" /\ call'[p].pc = "a_cache")
        => /\ store'[call[p].sid].lastActivity = call[p].ts
           /\ store'[call[p].sid].expiresAt =
                call[p].ts + defaultExpirationHours]_vars

\* C9: the stored lastActivity of a session that stays ACTIVE never
\* decreases.
C9_LastActivityMonotonic ==
    [][\A id \in DOMAIN store \cap DOMAIN store' :
        (store[id].status = "ACTIVE" /\ store'[id].status = "ACTIVE")
        => store'[id].lastActivity >= store[id].lastActivity]_vars

C11_UnauthenticatedRejected ==
    [][\A c \in Clients :
        /\ (sock[c] = "new" /\ sock'[c] # "new" /\ conn'[c].userId = "-")
            => /\ sock'[c] = "closed"
               /\ ~conn'[c].registered
               /\ events'[c] = {}
        /\ conn'[c].userId = "-"
            => /\ ~conn'[c].registered
               /\ sock'[c] # "open"
               /\ rooms'[c] = {}
               /\ received'[c] = <<>>
               /\ \A e \in events'[c] : e.name = "error"
               /\ \A h \in Handlers : handler'[h].client # c]_vars

\* C11 witness: a socket has been closed for a handshake that did not
\* authenticate, while the other socket is connected and in a room.
C11_Witness ==
    \E c \in Clients, d \in Clients :
        /\ sock[c] = "closed" /\ conn[c].userId = "-"
        /\ sock[d] = "open" /\ rooms[d] # {}

C12_NotLive(sid) ==
    \/ ~Exists(store, sid)
    \/ store[sid].status = "EXPIRED"
    \/ now > store[sid].expiresAt

C12_JoinError(c, sid) ==
    IF C12_NotLive(sid)
    THEN ErrorEv("Session not found or expired")
    ELSE ErrorEv("Access denied to session")

\* C12: a join_session naming a session that is absent, expired or owned
\* by another user ends with the matching error event to the requesting
\* socket alone; the socket stays open and registered, no room membership
\* and no lastActivity changes.
C12_JoinRejected ==
    [][\A h \in Handlers :
        LET c == handler[h].client
            sid == handler[h].sid
        IN (/\ handler[h].pc = "j_get"
            /\ handler'[h].pc # "j_get"
            /\ (C12_NotLive(sid) \/ store[sid].userId # conn[c].userId))
           => /\ events' = ToClient(c, C12_JoinError(c, sid))
              /\ handler'[h] = NoHandler
              /\ UNCHANGED <<sock, conn, rooms>>
              /\ \A id \in DOMAIN store :
                    /\ Exists(store', id)
                    /\ store'[id].lastActivity = store[id].lastActivity]_vars

C13_Rejection(c) == ErrorEv("Not connected to a session") \in events'[c]

\* C13: a send_message is taken up only from a socket that is in a room;
\* the rejection is the error 'Not connected to a session' to that socket
\* alone, and it persists nothing, broadcasts nothing, bumps no activity
\* and leaves the socket connected.
C13_SendNeedsRoom ==
    [][/\ \A h \in Handlers :
            (handler[h].op # "send_message" /\ handler'[h].op = "send_message")
            => rooms[handler'[h].client] # {}
       /\ \A c \in Clients :
            C13_Rejection(c)
            => /\ events' = ToClient(c, ErrorEv("Not connected to a session"))
               /\ UNCHANGED <<messages, received, store, sock, conn, rooms,
                              handler>>]_vars

(***************************************************************************)
(* Properties of expiration, cleanup and the cache.                        *)
(***************************************************************************)

C15_FromStore(r) ==
    /\ r.kind = "session"
    /\ Exists(store', r.session.id)
    /\ r.session = Snap(r.session.id, store'[r.session.id])

C15_CacheTransparent ==
    [][\A p \in SeqProcs :
        LET sid == call[p].sid
            ret == call'[p].ret
            returns == call[p].pc # "done" /\ call'[p].pc = "done"
        IN
        /\ call[p].pc \in CachePcs
            => /\ store' = store /\ nextId' = nextId /\ messages' = messages
               /\ returns => ret.kind # "error"
        /\ call' = call => store' = store
        /\ (returns /\ call[p].op = "getSession")
            => ret = IF Exists(store', sid) /\ ~isSessionExpired(store'[sid], now)
                     THEN Found(Snap(sid, store'[sid]))
                     ELSE Null
        /\ (returns /\ ret.kind = "session") => C15_FromStore(ret)
        /\ (returns /\ call[p].op \in {"expireSession", "deleteSession"}
                /\ ret.kind # "error")
            => ret = Ok
        /\ (returns /\ call[p].op = "cleanupExpiredSessions")
            => ret.kind = "count"]_vars

\* C15 witness: getSession has returned the stored row while the cache
\* holds a different, stale entry for the same id (the write that followed
\* an update failed, and so did the write that follows the read).
C15_Witness ==
    \E p \in SeqProcs :
        /\ call[p].op = "getSession" /\ call[p].pc = "done"
        /\ call[p].ret.kind = "session"
        /\ call[p].sid \in DOMAIN cache
        /\ cache[call[p].sid] # call[p].ret.session
        /\ call[p].ret.session = Snap(call[p].sid, store[call[p].sid])

\* the sessions a sweep that queries the store at this moment is to expire:
\* not EXPIRED (ACTIVE or INACTIVE) and with expiresAt before now
C16_Stale == {id \in DOMAIN store : store[id].expiresAt < now
                                    /\ store[id].status # "EXPIRED"}

\* as the claim words it: ACTIVE and with expiresAt before now
C16_StaleActive == {id \in DOMAIN store : store[id].expiresAt < now
                                          /\ store[id].status = "ACTIVE"}

C16_Sweep(S) ==
    \A p \in SeqProcs :
        /\ (call[p].pc = "s_find" /\ call'[p].pc # "s_find")
            => /\ store' = store /\ cache' = cache
               /\ IF S = {}
                  THEN call'[p].pc = "done" /\ call'[p].ret = Count(0)
                  ELSE call'[p].pc = "s_mark" /\ call'[p].ids = S
        /\ (call[p].pc = "s_mark" /\ call'[p].pc # "s_mark")
            => /\ DOMAIN store' = DOMAIN store
               /\ \A id \in DOMAIN store :
                    store'[id] = IF id \in call[p].ids
                                 THEN [store[id] EXCEPT !.status = "EXPIRED"]
                                 ELSE store[id]
               /\ call'[p].ids = call[p].ids
               /\ cache' = cache
        /\ (call[p].pc = "s_del" /\ call'[p].pc # "s_del")
            => /\ store' = store
               /\ DOMAIN cache' = DOMAIN cache \ call[p].ids
               /\ \A id \in DOMAIN cache' : cache'[id] = cache[id]
               /\ call'[p].pc = "done"
               /\ call'[p].ret = Count(Cardinality(call[p].ids))

C17_StaleActive(id) ==
    /\ Exists(store, id)
    /\ store[id].status = "ACTIVE"
    /\ store[id].expiresAt < now

C17_Settled(id) ==
    \/ ~Exists(store, id)
    \/ store[id].status # "ACTIVE"
    \/ ~(store[id].expiresAt < now)

C17_IdleReclaimed ==
    \A id \in SessionIds : C17_StaleActive(id) ~> C17_Settled(id)

\* C17 witness: the scheduled job has marked a session EXPIRED whose cache
\* entry still shows it ACTIVE and past its expiresAt.
C17_Witness ==
    /\ call[Scheduler].op = "cleanupExpiredSessions"
    /\ call[Scheduler].pc = "s_del"
    /\ \E id \in call[Scheduler].ids :
        /\ Exists(store, id) /\ store[id].status = "EXPIRED"
        /\ id \in DOMAIN cache /\ cache[id].status = "ACTIVE"
        /\ cache[id].expiresAt < now

\* C18: deleteOldExpiredSessions(retention) deletes exactly the sessions
\* that are EXPIRED with expiresAt before now minus the retention, deletes
\* all their messages and no other message, and returns the number of
\* sessions deleted; no ACTIVE or INACTIVE session is removed.
C18_Retention(p) ==
    IF call[p].exp = <<>> THEN olderThanDaysDefault ELSE call[p].exp[1]

C18_PurgeExact ==
    [][\A p \in SeqProcs :
        (call[p].pc = "o_delete" /\ call'[p].pc # "o_delete")
        => LET gone == DOMAIN store \ DOMAIN store' IN
           /\ DOMAIN store' \subseteq DOMAIN store
           /\ \A id \in DOMAIN store :
                id \in gone <=> /\ store[id].status = "EXPIRED"
                                /\ store[id].expiresAt + C18_Retention(p) < now
           /\ \A id \in DOMAIN store' : store'[id] = store[id]
           /\ \A i \in 1..Len(messages') : messages'[i].sessionId \notin gone
           /\ messages' = SelectSeq(messages,
                                    LAMBDA m : m.sessionId \in DOMAIN store')
           /\ call'[p].pc = "done"
           /\ call'[p].ret = Count(Cardinality(gone))]_vars

\* C18 witness: a purge has deleted a session and its message while an
\* EXPIRED session within the retention and a session that is not EXPIRED,
\* with a message, are still there.
C18_Witness ==
    \E p \in SeqProcs :
        /\ call[p].op = "deleteOldExpiredSessions" /\ call[p].pc = "done"
        /\ call[p].ret = Count(1)
        /\ Len(messages) = 1
        /\ Exists(store, messages[1].sessionId)
        /\ store[messages[1].sessionId].status # "EXPIRED"
        /\ \E id \in DOMAIN store : store[id].status = "EXPIRED"

(***************************************************************************)
(* Properties of the conversation log.                                     *)
(***************************************************************************)

\* C19: every append path rejects content that is empty after trimming and
\* persists nothing for it: a message row that is created has content that
\* is non-empty after trimming, and a call given content that is empty after
\* trimming ends in an error.
C19_AppendOps == {"appendMessage", "processMessage", "createMessage"}

C19_BlankContentRejected ==
    [][/\ \A i \in NewMessages : Trim(messages'[i].content) # <<>>
       /\ \A p \in SeqProcs :
            (/\ call[p].op \in C19_AppendOps
             /\ call[p].pc # "done" /\ call'[p].pc = "done"
             /\ Trim(call[p].content) = <<>>)
            => call'[p].ret.kind = "error"]_vars

\* C20: listBySession never rejects integer page and pageSize; the page it
\* reports is max(1, page) and the pageSize is clamped to [1, 200];
\* hasPrev = (page > 1), hasNext = (page * pageSize < total); it returns at
\* most pageSize items, the ones that follow the skipped pages, and hasNext
\* is true exactly when the session has messages beyond the returned page.
C20_Total(sid) ==
    Cardinality({i \in 1..Len(messages) : messages[i].sessionId = sid})

C20_Pagination ==
    [][\A p \in SeqProcs :
        (call[p].pc = "h_list" /\ call'[p].pc # "h_list")
        => LET r == call'[p].ret
               total == C20_Total(call[p].sid)
               skipped == (r.page - 1) * r.pageSize
               ids == {r.items[i].id : i \in 1..Len(r.items)}
           IN
           /\ call'[p].pc = "done" /\ r.kind = "page"
           /\ r.page >= 1
           /\ call[p].page # <<>>
                => r.page = IF call[p].page[1] > 1 THEN call[p].page[1] ELSE 1
           /\ r.pageSize >= 1 /\ r.pageSize <= 200
           /\ (call[p].pageSize # <<>> /\ call[p].pageSize[1] \in 1..200)
                => r.pageSize = call[p].pageSize[1]
           /\ (call[p].pageSize # <<>> /\ call[p].pageSize[1] > 200)
                => r.pageSize = 200
           /\ (call[p].pageSize # <<>> /\ call[p].pageSize[1] < 1)
                => r.pageSize = 1
           /\ r.total = total
           /\ r.hasPrev = (r.page > 1)
           /\ r.hasNext = (r.page * r.pageSize < total)
           /\ Len(r.items) <= r.pageSize
           /\ Cardinality(ids) = Len(r.items)
           /\ \A i \in 1..Len(r.items) : r.items[i].sessionId = call[p].sid
           /\ Len(r.items) = IF total - skipped > r.pageSize THEN r.pageSize
                              ELSE IF total > skipped THEN total - skipped
                              ELSE 0
           /\ r.hasNext <=> (total > skipped + Len(r.items))]_vars

\* C20 witness: a request with page 0 and pageSize 0 on a session with two
\* messages has returned the first message and hasNext.
C20_Witness ==
    \E p \in SeqProcs :
        /\ call[p].op = "getHistory" /\ call[p].pc = "done"
        /\ call[p].page = <<0>> /\ call[p].pageSize = <<0>>
        /\ call[p].ret.kind = "page"
        /\ call[p].ret.page = 1 /\ call[p].ret.pageSize = 1
        /\ Len(call[p].ret.items) = 1 /\ call[p].ret.total = 2
        /\ call[p].ret.hasNext /\ ~call[p].ret.hasPrev

\* C21: round trip.  A listing with page 1, pageSize 50 and order asc of a
\* session that holds fewer than 50 messages returns every message appended
\* to it, with its id and timestamp, each one after all the messages that
\* were appended before it.
C21_RoundTrip ==
    [][\A p \in SeqProcs :
        (/\ call[p].pc = "h_list" /\ call'[p].pc = "done"
         /\ call[p].page \in {<<>>, <<1>>}
         /\ call[p].pageSize \in {<<>>, <<50>>}
         /\ call[p].order \in {<<>>, <<"asc">>})
        => LET items == call'[p].ret.items
               mine == {i \in 1..Len(messages) :
                            messages[i].sessionId = call[p].sid}
           IN \A j \in mine :
                \E k \in 1..Len(items) :
                    /\ items[k] = messages[j]
                    /\ \A i \in mine : i < j =>
                        \E h \in 1..(k - 1) : items[h] = messages[i]]_vars

(***************************************************************************)
(* Properties of ownership.                                                *)
(***************************************************************************)

\* C22: through the HTTP API a principal reaches only sessions it owns: a
\* request on a session of another user changes neither the sessions nor
\* the messages and returns no session and no message.
C22_OwnSessionsOnly ==
    [][\A p \in SeqProcs :
        (/\ call[p].uid \in Users
         /\ call[p].pc \notin {"idle", "done"}
         /\ Exists(store, call[p].sid)
         /\ store[call[p].sid].userId # call[p].uid)
        => /\ store' = store
           /\ messages' = messages
           /\ call'[p].pc = "done"
                => call'[p].ret.kind \notin {"session", "message"}]_vars

(***************************************************************************)
(* Properties of broadcasts and of the connection registry.                *)
(***************************************************************************)

\* C23: broadcasts follow the order in which persistence completes: when
\* the persistence of a message of session S completes, every socket in
\* room S is delivered that message, after every message it was delivered
\* before (all of which were persisted earlier); and no socket is delivered
\* anything but the message whose persistence has just completed.
C23_BroadcastInPersistenceOrder ==
    [][/\ \A d \in Clients :
            received'[d] # received[d]
            => /\ Len(messages') = Len(messages) + 1
               /\ Len(received'[d]) = Len(received[d]) + 1
               /\ received'[d][Len(received'[d])] = messages'[Len(messages')]
               /\ \A i \in 1..Len(received[d]) :
                    /\ received'[d][i] = received[d][i]
                    /\ \E k \in 1..Len(messages) :
                        messages[k] = received[d][i]
       /\ Len(messages') > Len(messages)
            => \A d \in InRoom(messages'[Len(messages')].sessionId) :
                /\ received'[d] # received[d]
                /\ received'[d][Len(received'[d])] = messages'[Len(messages')]
      ]_vars

\* C24: when the close of a registered connection that was in room S has
\* been handled, the connection is out of the registry and subscribed to
\* no room, and every socket that remains in room S has been sent
\* user_disconnected, whether updateSessionActivity succeeded or failed.
C24_CloseNotifiesRoom ==
    [][\A h \in Handlers :
        (handler[h].pc = "d_activity" /\ handler'[h].pc # "d_activity")
        => LET c == handler[h].client IN
           /\ ~conn'[c].registered
           /\ sock'[c] = "closed" \/ rooms'[c] = {}
           /\ \A d \in ClientTo(c, handler[h].sid) :
                \E e \in events'[d] : e.name = "user_disconnected"]_vars

\* C25: when a send_message handler persists a message for session S and
\* broadcasts it, the sockets that are sent message_received are all in room
\* S at that moment, whatever join_session or leave_session of the sender
\* ran while processMessage was awaited.
C25_NoDeliveryOutsideRoom ==
    [][\A h \in Handlers :
        (handler[h].pc = "s_process" /\ Len(messages') > Len(messages))
        => \A d \in Clients :
            received'[d] # received[d] => d \in InRoom(handler[h].sid)]_vars

\* C26: once handleDisconnect has run to its end for a socket, the registry
\* holds no entry for that socket, whatever join_session or leave_session
\* handlers of the socket were suspended at an await when it closed.
C26_ClosedStaysRemoved ==
    \A c \in Clients :
        (/\ sock[c] = "closed"
         /\ \A h \in Handlers :
              ~(handler[h].op = "disconnect" /\ handler[h].client = c))
        => ~conn[c].registered

\* C27: whenever no gateway handler is in flight for a registered, open
\* socket, the rooms of the socket are exactly the room of its registry
\* sessionId: no room when the sessionId is unset, room S alone when it is S.
C27_RegistryMatchesRooms ==
    \A c \in Clients :
        (/\ sock[c] = "open"
         /\ conn[c].registered
         /\ \A h \in Handlers : handler[h].client # c)
        => rooms[c] = (IF conn[c].sessionId = 0 THEN {}
                       ELSE {conn[c].sessionId})

\* C28: whenever no SessionsService operation is in flight, every session
\* the cache holds an entry for has a row whose status is not EXPIRED.
C28_CacheHoldsNoDeadSession ==
    (\A p \in Procs : Free(p))
    => \A id \in DOMAIN cache :
        /\ Exists(store, id)
        /\ store[id].status # "EXPIRED"


\* C29: every socket that is in room session:S was authenticated as the
\* owner of session S.
C29_RoomMembersOwnSession ==
    \A c \in Clients : \A sid \in rooms[c] :
        Exists(store, sid) => store[sid].userId = conn[c].userId

\* both sockets are in a room, each in the room of its own user's session,
\* and one of them has been refused the other's session in the last step
C29_Witness ==
    /\ rooms["A"] = {1} /\ conn["A"].userId = "u1"
    /\ rooms["B"] = {2} /\ conn["B"].userId = "u2"
    /\ ErrorEv("Access denied to session") \in events["B"]

\* C30: EXPIRED is absorbing: a session whose status is EXPIRED keeps that
\* status in every later step for as long as its row exists; the only
\* change left to it is deletion.
C30_ExpiredIsAbsorbing ==
    [][\A id \in DOMAIN store :
        (store[id].status = "EXPIRED" /\ Exists(store', id))
        => store'[id].status = "EXPIRED"]_vars

\* C31: a join_session request that ends with an error event leaves the
\* socket's rooms and its registry sessionId as the request found them. In
\* SpecFirstJoin every request finds its socket in no room and with no
\* sessionId, so that is how an error must leave it; and the ending step
\* emits neither session_joined nor user_joined.
C31_FailedJoinChangesNothing ==
    [][\A h \in Handlers :
        (/\ handler[h].op = "join_session"
         /\ handler'[h].pc = "idle"
         /\ \E e \in events'[handler[h].client] : e.name = "error")
        => LET c == handler[h].client IN
           /\ rooms'[c] = {}
           /\ conn'[c].sessionId = 0
           /\ \A d \in Clients : \A e \in events'[d] :
                e.name \notin {"session_joined", "user_joined"}]_vars

\* C32: every session whose status the sweep's bulk write sets to EXPIRED
\* has its expiresAt before the clock at the instant of that write.
C32_SweepMarksOnlyStale ==
    [][\A p \in Procs :
        (call[p].pc = "s_mark" /\ call'[p].pc # "s_mark")
        => \A id \in call[p].ids \cap DOMAIN store :
            store'[id].status = "EXPIRED" => store[id].expiresAt < now]_vars

\* C33: when a socket leaves room A, the activity of session A is bumped
\* and every remaining subscriber of A is sent user_left. For leave_session
\* this is the step in which updateSessionActivity returns, and the leaving
\* socket is sent session_left carrying A. For a join into another room it
\* is the step in which the socket is taken out of A: the handler holds A
\* nowhere after it.
C33_LeaveNotifiesRoom ==
    [][\A h \in Handlers :
        LET c == handler[h].client IN
        /\ (handler[h].pc = "l_activity" /\ handler'[h].pc # "l_activity")
           => LET A == handler[h].sid IN
              /\ Exists(store', A) /\ store'[A].lastActivity = now
              /\ \A d \in ClientTo(c, A) :
                    \E e \in events'[d] : e.name = "user_left" /\ e.sid = A
              /\ Ev("session_left", A, "") \in events'[c]
        /\ (handler[h].pc = "j_get" /\ handler'[h].pc = "j_activity")
           => \A A \in rooms[c] \ rooms'[c] :
              /\ Exists(store', A) /\ store'[A].lastActivity = now
              /\ \A d \in ClientTo(c, A) :
                    \E e \in events'[d] : e.name = "user_left" /\ e.sid = A]_vars

\* C34: when a join_session for session S ends with session_joined, the
\* socket is in room S, the lastActivity of S is the time of the join, the
\* socket is sent exactly one event, session_joined carrying S and the
\* most recent messages of S, at most recentLimit of them, newest first, and
\* the other sockets in room S, and only they, are sent user_joined.
C34_Joined(c) == {e \in events'[c] : e.name = "session_joined"}

C34_JoinWelcomes ==
    [][\A h \in Handlers :
        (handler[h].pc = "j_recent" /\ C34_Joined(handler[h].client) # {})
        => LET c == handler[h].client
               S == handler[h].sid
               mine == {i \in 1..Len(messages) : messages[i].sessionId = S}
           IN /\ S \in rooms'[c]
              /\ store'[S].lastActivity = now
              /\ Cardinality(events'[c]) = 1
              /\ \A e \in events'[c] :
                    /\ e.name = "session_joined" /\ e.sid = S
                    /\ Len(e.recentMessages) = Min(recentLimit, Cardinality(mine))
                    /\ \A i, j \in 1..Len(e.recentMessages) : i < j =>
                         /\ e.recentMessages[i] # e.recentMessages[j]
                         /\ e.recentMessages[i].timestamp
                              >= e.recentMessages[j].timestamp
                    /\ \A i \in 1..Len(e.recentMessages) :
                         /\ e.recentMessages[i].sessionId = S
                         /\ \A k \in mine :
                              messages[k].timestamp
                                  > e.recentMessages[i].timestamp
                              => \E j \in 1..Len(e.recentMessages) :
                                    e.recentMessages[j] = messages[k]
              /\ \A d \in Clients \ {c} :
                    events'[d] = IF d \in InRoom(S)
                                 THEN {Ev("user_joined", S, conn[c].userId)}
                                 ELSE {}]_vars

\* a join has just ended with session_joined carrying recentLimit messages
\* of a longer history, while the other socket is in the room
C34_Witness ==
    /\ \E e \in events["A"] :
        /\ e.name = "session_joined"
        /\ Len(e.recentMessages) = recentLimit
        /\ Len(messages) > recentLimit
    /\ Ev("user_joined", 1, "u1") \in events["B"]
    /\ rooms["A"] = {1} /\ rooms["B"] = {1}

\* C35: a typing event of a socket that is in room S sends
\* typing_indicator to every other socket in room S and to no one else; a
\* typing event of a socket that is in no room sends nothing; and no typing
\* event changes a session, the cache, a message or a room.
C35_TypingRelayedInRoom ==
    [][\A c \in Clients :
        handleTyping(c)
        => /\ UNCHANGED <<store, cache, messages, rooms, received>>
           /\ rooms[c] = {} => events' = Nothing
           /\ \A S \in rooms[c] :
                /\ events'[c] = {}
                /\ \A d \in Clients \ {c} :
                     IF d \in InRoom(S)
                     THEN \E e \in events'[d] :
                            e.name = "typing_indicator" /\ e.sid = S
                     ELSE events'[d] = {}]_vars

\* C36: a get_session_info request of a socket whose registry entry names
\* a session ends by sending the socket exactly one event, session_info with
\* connected = TRUE and that session's id, whatever has become of the
\* session since the join.
C36_InfoAlwaysAnswered ==
    [][\A h \in Handlers :
        (handler[h].op = "get_session_info" /\ handler'[h].pc = "idle")
        => LET c == handler[h].client IN
           /\ Cardinality(events'[c]) = 1
           /\ \A e \in events'[c] :
                /\ e.name = "session_info"
                /\ e.connected
                /\ e.sid = conn[c].sessionId]_vars

\* C37: updateMessage and deleteMessage of an id that no message has end
\* with 'Message not found' and leave the messages as they are; of an id
\* that a message has they succeed, whatever the status and the expiresAt
\* of its session: deleteMessage removes that message alone, updateMessage
\* writes its content and leaves its id, sessionId and timestamp, and every
\* other message, as they are.
C37_EditByIdOnly ==
    [][\A p \in Procs :
        LET id == call[p].msg.id
            at == findById(messages, id)
        IN
        /\ (call[p].pc = "e_find" /\ call'[p] # call[p] /\ at = {})
           => /\ call'[p].pc = "done" /\ call'[p].ret = MessageNotFound
              /\ messages' = messages
        /\ (call[p].pc = "e_find" /\ call'[p] # call[p] /\ at # {})
           => call'[p].pc = "e_write" /\ messages' = messages
        /\ (/\ call[p].pc = "e_write" /\ call'[p] # call[p] /\ at # {}
            /\ call[p].op = "updateMessage")
           => /\ call'[p].pc = "done" /\ call'[p].ret.kind = "message"
              /\ Len(messages') = Len(messages)
              /\ \A i \in 1..Len(messages) :
                    IF i \in at
                    THEN messages'[i] =
                            [messages[i] EXCEPT !.content = call[p].content]
                    ELSE messages'[i] = messages[i]
        /\ (/\ call[p].pc = "e_write" /\ call'[p] # call[p] /\ at # {}
            /\ call[p].op = "deleteMessage")
           => /\ call'[p].pc = "done" /\ call'[p].ret = Ok
              /\ messages' = SelectSeq(messages, LAMBDA m : m.id # id)]_vars

\* a message of a session that is EXPIRED has been given new content at a
\* time after the message was created, and the other message has been
\* deleted
C37_Witness ==
    /\ \E p \in Procs :
        /\ call[p].op = "updateMessage" /\ call[p].pc = "done"
        /\ call[p].ret.kind = "message"
        /\ call[p].ret.message.content = <<" ", "h">>
        /\ call[p].ret.message.timestamp < now
        /\ Exists(store, call[p].ret.message.sessionId)
        /\ store[call[p].ret.message.sessionId].status = "EXPIRED"
    /\ Len(messages) = 1

\* C38: clearConversation(S) goes on to the bulk delete only if, at its
\* lookup, session S exists, is not EXPIRED and is not past its expiresAt;
\* when it ends with an error the error is 'Session not found or expired'
\* and no message has been deleted; when it ends with a count, the messages
\* of S are gone, the count is how many they were, and the messages of the
\* other sessions are as before.
C38_ClearRevalidates ==
    [][\A p \in Procs :
        (call[p].op = "clearConversation" /\ call'[p] # call[p])
        => LET S == call[p].sid IN
           /\ (call[p].pc = "g_find" /\ call'[p].pc = "g_set")
              => /\ Exists(store, S)
                 /\ store[S].status # "EXPIRED"
                 /\ ~(now > store[S].expiresAt)
           /\ (call'[p].pc = "done" /\ call'[p].ret.kind = "error")
              => /\ call'[p].ret = NotFoundOrExpired
                 /\ messages' = messages
           /\ call[p].pc = "k_delete"
              => /\ call'[p].pc = "done"
                 /\ call'[p].ret = Count(countBySessionId(messages, S))
                 /\ countBySessionId(messages', S) = 0
                 /\ messages' = SelectSeq(messages,
                                          LAMBDA m : m.sessionId # S)
           /\ call[p].pc # "k_delete" => messages' = messages]_vars

\* C39: in processMessage and createMessage a failing updateSessionActivity
\* does not make the append end with an error, and an append that ends with
\* an error has created no message.
C39_BumpNeverFailsAppend ==
    [][\A p \in Procs :
        (/\ call[p].op \in {"processMessage", "createMessage"}
         /\ call'[p].pc = "done" /\ call[p].pc # "done"
         /\ call'[p].ret.kind = "error")
        => /\ call[p].pc # "a_write"
           /\ call[p].msg = NoMsg]_vars

\* C40: a session is expired from the instant now = expiresAt on: a
\* getSession that reads the row from the store at a time at or past its
\* expiresAt goes on to expire it and does not return it.
C40_ExpiredAtBoundary ==
    [][\A p \in Procs :
        (/\ call[p].op = "getSession"
         /\ call[p].pc = "g_find" /\ call'[p] # call[p]
         /\ Exists(store, call[p].sid)
         /\ now >= store[call[p].sid].expiresAt)
        => call'[p].pc = "x_update"]_vars

====
